---- MODULE Spec2Model ----
(***************************************************************************)
(* A model of the gaise unification layer of ikcore/ikode:                 *)
(*   - the stream accumulator (gaise-core, GaiseStreamAccumulator),        *)
(*   - the token state of the Vertex AI adapter (get_token),               *)
(*   - the routing registry (gaise-client, GaiseClientService).            *)
(* Strings are sequences of characters, Option<T> is a sequence of length  *)
(* at most one, a HashMap/BTreeMap is a function on its key set.           *)
(***************************************************************************)
EXTENDS Naturals, Integers, Sequences, FiniteSets, TLC

\* ------------------------------------------------------------------ bounds
\* Longest sequence of pushes made to one accumulator.
MaxPushes == 3
\* Last minute of the wall clock.
MaxClock == 6
\* Longest generated model string, in characters.
MaxModelLen == 3
\* Most items one adapter stream produces.
MaxStream == 3
\* Most components of a generated relative path.
MaxPathLen == 3
\* Most messages of a chat history.
MaxHistoryLen == 6
\* Largest value given to /max-history and /prefix-keep.
MaxSetting == 4

\* ----------------------------------------------------------------- options
None == <<>>
Some(x) == <<x>>
IsSome(o) == o # <<>>
Unwrap(o) == o[1]

EmptyStr == <<>>
EmptyMap == <<>>

\* Result<T, E>
Ok(x) == [ok |-> TRUE, val |-> x]
Err(e) == [ok |-> FALSE, val |-> e]

\* ------------------------------------------------- accumulator: the state
VARIABLES
    acc,        \* the GaiseStreamAccumulator
    pushed,     \* the items pushed so far, in push order (history)
    accPc,      \* "open" while pushes are accepted, "finished" after finish()
    msg         \* the GaiseMessage finish() returned, None before

accVars == <<acc, pushed, accPc, msg>>

\* ------------------------------------------ Vertex AI token: the state
VARIABLES
    clock,        \* the wall clock
    tokenState,   \* TokenState behind Arc<tokio::sync::Mutex<..>>, shared by clones
    mutexHolder,  \* Some(c) while caller c holds token_state's mutex
    tcall         \* per caller: where its get_token() call stands, and what it saw

tokenVars == <<clock, tokenState, mutexHolder, tcall>>

\* ------------------------------------------------- registry: the state
VARIABLES
    config,     \* GaiseClientConfig: the settings that are present
    clients,    \* RwLock<HashMap<String, Arc<dyn GaiseClient>>>
    builtLog,   \* every adapter instance constructed so far (history)
    failedLog,  \* every error get_client returned, and whether it was a repeat (history)
    addedLog,   \* per provider, the instance of the last add_client that returned (history)
    rcall       \* per caller: where its registry call stands, and what it did

regVars == <<config, clients, builtLog, failedLog, addedLog, rcall>>

\* ------------------------------ collect, adapters, ikode-cli: the state
VARIABLES
    coll,       \* a GaiseStreamAccumulator::collect(stream) call: its stream and locals
    astream,    \* an adapter's instruct_stream: the transport below it, the items above
    http,       \* an adapter operation's HTTP call: what was answered, what it returned
    tool,       \* ikode-cli: a file tool call, its validated path and the file it touched
    chat,       \* ikode-cli: the App's history and settings, and the last request history
    xlat,       \* an adapter's request translation: the input and the provider request built
    wire,       \* an adapter's mapped stream: the transport chunks and the items made of them
    edit,       \* ikode-cli: an edit_file call, the file at its path before and after
    run         \* ikode-cli: a process_prompt run, its requests and what it appended

extVars == <<coll, astream, http, tool, chat, xlat, wire, edit, run>>
\* all of them but one
collRest == <<astream, http, tool, chat, xlat, wire, edit, run>>
astreamRest == <<coll, http, tool, chat, xlat, wire, edit, run>>
httpRest == <<coll, astream, tool, chat, xlat, wire, edit, run>>
toolRest == <<coll, astream, http, chat, xlat, wire, edit, run>>
chatRest == <<coll, astream, http, tool, xlat, wire, edit, run>>
xlatRest == <<coll, astream, http, tool, chat, wire, edit, run>>
wireRest == <<coll, astream, http, tool, chat, xlat, edit, run>>
editRest == <<coll, astream, http, tool, chat, xlat, wire, run>>
runRest == <<coll, astream, http, tool, chat, xlat, wire, edit>>

\* GaiseStreamChunk and GaiseInstructStreamResponse
TextChunk(t) == [kind |-> "text", text |-> t]
ToolCallChunk(i, id, name, args) ==
    [kind |-> "tool_call", index |-> i, id |-> id, name |-> name, arguments |-> args]
UsageChunk(inp, out) == [kind |-> "usage", input |-> inp, output |-> out]
StreamResponse(chunk, ext) == [chunk |-> chunk, external_id |-> ext]

\* GaiseStreamAccumulator::new
NewAccumulator ==
    [role |-> <<"assistant">>, text |-> EmptyStr, tool_calls |-> EmptyMap,
     usage |-> None, external_id |-> None]

\* push, lines 45-47: the external id is taken while none is held
CaptureExternalId(a, ext) ==
    IF a.external_id = None THEN [a EXCEPT !.external_id = ext] ELSE a

\* push, lines 50-52
PushTextPrepend(a, t) == [a EXCEPT !.text = t \o @]
PushText(a, t) == [a EXCEPT !.text = @ \o t]

\* GaiseToolCall { type: "function", ..Default::default() }
NewToolCall == [id |-> EmptyStr, type |-> <<"function">>, name |-> EmptyStr, arguments |-> None]

\* push, lines 59-68: each present field is appended to the builder's field
AppendFragmentsOverwrite(entry, c) ==
    [id |-> IF IsSome(c.id) THEN Unwrap(c.id) ELSE entry.id,
     type |-> entry.type,
     name |-> IF IsSome(c.name) THEN Unwrap(c.name) ELSE entry.name,
     arguments |-> IF IsSome(c.arguments) THEN Some(Unwrap(c.arguments)) ELSE entry.arguments]
AppendFragments(entry, c) ==
    [id |-> IF IsSome(c.id) THEN entry.id \o Unwrap(c.id) ELSE entry.id,
     type |-> entry.type,
     name |-> IF IsSome(c.name) THEN entry.name \o Unwrap(c.name) ELSE entry.name,
     arguments |->
        IF IsSome(c.arguments)
        THEN Some((IF IsSome(entry.arguments) THEN Unwrap(entry.arguments) ELSE EmptyStr)
                  \o Unwrap(c.arguments))
        ELSE entry.arguments]

\* push, lines 53-69: entry(index).or_insert_with(..), then the appends
PushToolCall(a, c) ==
    LET entry == IF c.index \in DOMAIN a.tool_calls THEN a.tool_calls[c.index] ELSE NewToolCall
        keys == DOMAIN a.tool_calls \cup {c.index}
    IN [a EXCEPT !.tool_calls =
            [k \in keys |-> IF k = c.index THEN AppendFragments(entry, c) ELSE a.tool_calls[k]]]

\* push, lines 74-76 and 80-82: *cur.entry(k).or_insert(0) += v for every (k, v)
MergeCountsOverwrite(cur, m) ==
    [k \in DOMAIN cur \cup DOMAIN m |-> IF k \in DOMAIN m THEN m[k] ELSE cur[k]]
MergeCounts(cur, m) ==
    [k \in DOMAIN cur \cup DOMAIN m |->
        (IF k \in DOMAIN cur THEN cur[k] ELSE 0) + (IF k \in DOMAIN m THEN m[k] ELSE 0)]

\* push, lines 72-77 / 78-83: one side of the usage, created on first use
MergeSide(cur, side) ==
    IF IsSome(side)
    THEN Some(MergeCounts(IF IsSome(cur) THEN Unwrap(cur) ELSE EmptyMap, Unwrap(side)))
    ELSE cur

\* push, lines 70-84
PushUsage(a, u) ==
    LET current == IF IsSome(a.usage) THEN Unwrap(a.usage) ELSE [input |-> None, output |-> None]
    IN [a EXCEPT !.usage = Some([input |-> MergeSide(current.input, u.input),
                                 output |-> MergeSide(current.output, u.output)])]

\* GaiseStreamAccumulator::push
Push(a, item) ==
    LET a1 == CaptureExternalId(a, item.external_id)
        c == item.chunk
    IN CASE c.kind = "text" -> PushText(a1, c.text)
         [] c.kind = "tool_call" -> PushToolCall(a1, c)
         [] c.kind = "usage" -> PushUsage(a1, c)

\* BTreeMap::into_values: the values in ascending key order
RECURSIVE IntoValuesDescending(_)
IntoValuesDescending(m) ==
    IF DOMAIN m = {} THEN <<>>
    ELSE LET k == CHOOSE x \in DOMAIN m : \A y \in DOMAIN m : y <= x
         IN <<m[k]>> \o IntoValuesDescending([j \in DOMAIN m \ {k} |-> m[j]])
RECURSIVE IntoValues(_)
IntoValues(m) ==
    IF DOMAIN m = {} THEN <<>>
    ELSE LET k == CHOOSE x \in DOMAIN m : \A y \in DOMAIN m : x <= y
         IN <<m[k]>> \o IntoValues([j \in DOMAIN m \ {k} |-> m[j]])

\* GaiseStreamAccumulator::finish
Finish(a) ==
    [role |-> a.role,
     content |-> IF a.text # EmptyStr THEN Some([kind |-> "text", text |-> a.text]) ELSE None,
     tool_calls |-> IF DOMAIN a.tool_calls = {} THEN None ELSE Some(IntoValues(a.tool_calls)),
     tool_call_id |-> None]

\* The stream responses pushed in the model: text fragments (one empty), tool
\* call fragments for the indices 0 and 2 with fields present and absent,
\* usage chunks with one or both sides, with and without an external id.
TextItems ==
    { StreamResponse(TextChunk(t), None) : t \in {EmptyStr, <<"a">>, <<"b">>} }
    \cup { StreamResponse(TextChunk(<<"c">>), Some(<<"e", "1">>)) }
ToolCallItems ==
    { StreamResponse(ToolCallChunk(2, Some(<<"i">>), Some(<<"n">>), Some(<<"x">>)), None),
      StreamResponse(ToolCallChunk(2, None, None, Some(<<"y">>)), None),
      StreamResponse(ToolCallChunk(2, Some(<<"j">>), None, None), Some(<<"e", "2">>)),
      StreamResponse(ToolCallChunk(0, Some(<<"k">>), Some(<<"m">>), None), None),
      StreamResponse(ToolCallChunk(0, None, Some(<<"o">>), Some(EmptyStr)), None) }
UsageItems ==
    { StreamResponse(UsageChunk(Some([prompt |-> 10]), None), None),
      StreamResponse(UsageChunk(None, Some([completion |-> 5])), None),
      StreamResponse(UsageChunk(Some([prompt |-> 1, cached |-> 2]), Some([completion |-> 3])),
                     Some(EmptyStr)),
      StreamResponse(UsageChunk(None, None), None) }
Items == TextItems \cup ToolCallItems \cup UsageItems

\* acc.push(&item)
DoPush(item) ==
    /\ accPc = "open"
    /\ Len(pushed) < MaxPushes
    /\ acc' = Push(acc, item)
    /\ pushed' = Append(pushed, item)
    /\ UNCHANGED <<accPc, msg>>
    /\ UNCHANGED <<tokenVars, regVars, extVars>>

\* let msg = acc.finish()
DoFinish ==
    /\ accPc = "open"
    /\ msg' = Some(Finish(acc))
    /\ accPc' = "finished"
    /\ UNCHANGED <<acc, pushed>>
    /\ UNCHANGED <<tokenVars, regVars, extVars>>

AccNext ==
    \/ \E item \in Items : DoPush(item)
    \/ DoFinish

\* ------------------------------------ GaiseStreamAccumulator::collect
IdleCollect ==
    [pc |-> "idle", stream |-> <<>>, pulled |-> 0, accumulator |-> NewAccumulator,
     result |-> None]

\* The items of the streams collect() is given: responses and two errors.
CollectItems ==
    { Ok(r) :
        r \in { StreamResponse(TextChunk(<<"a">>), None),
                StreamResponse(TextChunk(<<"b">>), Some(<<"e", "1">>)),
                StreamResponse(ToolCallChunk(2, Some(<<"i">>), Some(<<"n">>), Some(<<"x">>)), None),
                StreamResponse(ToolCallChunk(0, None, None, Some(<<"y">>)), None),
                StreamResponse(UsageChunk(Some([prompt |-> 10]), None), None) } }
    \cup { Err(e) : e \in {<<"E", "1">>, <<"E", "2">>} }
CollectStreams == UNION { [1..n -> CollectItems] : n \in 0..MaxStream }

\* collect, lines 114-115: let chunk = chunk_res?; accumulator.push(&chunk)
\* (CollectItemSkipErr: a loop that goes on past an Err item)
CollectItemSkipErr(call, item) ==
    IF item.ok
    THEN [call EXCEPT !.accumulator = Push(@, item.val)]
    ELSE call
CollectItem(call, item) ==
    IF item.ok
    THEN [call EXCEPT !.accumulator = Push(@, item.val)]
    ELSE [call EXCEPT !.pc = "done", !.result = Some(item)]

\* collect, line 112: called on a stream; a new accumulator
StartCollect(s) ==
    /\ coll.pc = "idle"
    /\ coll' = [IdleCollect EXCEPT !.pc = "pulling", !.stream = s]
    /\ UNCHANGED <<accVars, tokenVars, regVars, collRest>>

\* collect, lines 113-117: stream.next().await yields the next item, or None
\* at the end of the stream, and then finish() makes the result
CollectNext ==
    /\ coll.pc = "pulling"
    /\ coll' =
        IF coll.pulled < Len(coll.stream)
        THEN CollectItem([coll EXCEPT !.pulled = @ + 1], coll.stream[coll.pulled + 1])
        ELSE [coll EXCEPT !.pc = "done", !.result = Some(Ok(Finish(coll.accumulator)))]
    /\ UNCHANGED <<accVars, tokenVars, regVars, collRest>>

\* the caller has the result
CollectReturn ==
    /\ coll.pc = "done"
    /\ coll' = IdleCollect
    /\ UNCHANGED <<accVars, tokenVars, regVars, collRest>>

CollectSteps ==
    \/ \E s \in CollectStreams : StartCollect(s)
    \/ CollectNext
    \/ CollectReturn

\* ============================================ Vertex AI adapter: get_token
\* Time is counted in minutes. Utc::now() reads the clock; the clock may
\* advance between any two steps of any caller.

\* The tasks calling get_token() on the adapter or its clones.
Callers == {"c1", "c2"}

\* let refresh_skew = Duration::from_secs(5 * 60)
RefreshSkew == 5

\* GaiseClientVertexAI::new: empty token, "Bearer", no expiry
NewTokenState ==
    [access_token |-> EmptyStr, token_type |-> <<"Bearer">>, expires_at |-> None]

\* What the token endpoint may answer (GoogleAccessToken): an access_token
\* (possibly empty), a token_type and expires_in (minutes) below, just above
\* and well above the skew.
TokenResponse(tok, exp) ==
    [access_token |-> tok, token_type |-> <<"Bearer">>, expires_in |-> exp]
TokenResponses ==
    { TokenResponse(<<"t", "1">>, 3), TokenResponse(<<"t", "2">>, RefreshSkew + 1),
      TokenResponse(<<"t", "3">>, 15), TokenResponse(EmptyStr, 15) }

\* get_token, lines 57-60
NeedsRefreshStrict(st, now) ==
    IF st.expires_at = None THEN st.access_token = EmptyStr
    ELSE st.access_token = EmptyStr \/ now + RefreshSkew > Unwrap(st.expires_at)
NeedsRefresh(st, now) ==
    IF st.expires_at = None THEN st.access_token = EmptyStr
    ELSE st.access_token = EmptyStr \/ now + RefreshSkew >= Unwrap(st.expires_at)

\* get_token, lines 65-69: now is the time read on entry, before the lock
StoreTokenKeepExpiry(st, resp, now) ==
    [access_token |-> resp.access_token, token_type |-> resp.token_type,
     expires_at |-> IF st.expires_at = None THEN Some(now + resp.expires_in) ELSE st.expires_at]
StoreToken(st, resp, now) ==
    [access_token |-> resp.access_token, token_type |-> resp.token_type,
     expires_at |-> Some(now + resp.expires_in)]

\* self.token_state.lock().await is granted only while nobody holds the mutex
\* (any waiting caller may be the one granted: a superset of tokio's order)
MutexAlwaysGranted == TRUE
MutexFree == mutexHolder = None

IdleCall ==
    [pc |-> "idle", now |-> 0, fetches |-> 0, ret |-> None, resp |-> None, waitedFor |-> None,
     left |-> None, afterFail |-> None, again |-> FALSE]

\* A fetch has failed (line 64) and the token state is as that call left it.
SomeCallFailed ==
    \E d \in Callers :
        /\ tcall[d].pc = "done"
        /\ ~Unwrap(tcall[d].ret).ok
        /\ tcall[d].left = Some(tokenState)

\* get_token, lines 53-54: the caller reads now, then asks for the mutex
GetTokenEnter(c) ==
    /\ tcall[c].pc = "idle"
    /\ tcall' = [tcall EXCEPT ![c] =
            [IdleCall EXCEPT !.pc = "waiting", !.now = clock,
                             !.afterFail = IF SomeCallFailed THEN Some(tokenState) ELSE None]]
    /\ UNCHANGED <<clock, tokenState, mutexHolder>>
    /\ UNCHANGED <<accVars, regVars, extVars>>

\* get_token, lines 56-61 and 73: the mutex is granted; with no refresh needed
\* the cached token is returned and the guard dropped, else the fetch starts
\* with the guard held
GetTokenLocked(c) ==
    /\ tcall[c].pc = "waiting"
    /\ MutexFree
    /\ IF NeedsRefresh(tokenState, tcall[c].now)
       THEN /\ mutexHolder' = Some(c)
            /\ tcall' = [tcall EXCEPT ![c].pc = "fetching", ![c].fetches = @ + 1,
                                      ![c].again = (tcall[c].afterFail = Some(tokenState)),
                                      ![c].afterFail = None]
       ELSE /\ mutexHolder' = mutexHolder
            /\ tcall' = [tcall EXCEPT ![c].pc = "done",
                                      ![c].ret = Some(Ok(tokenState.access_token)),
                                      ![c].afterFail = None]
    /\ UNCHANGED <<clock, tokenState>>
    /\ UNCHANGED <<accVars, regVars, extVars>>

\* get_token, lines 64-73: fetch_new_token() answered; the state is updated,
\* the new token returned and the guard dropped. A caller waiting for the
\* mutex meanwhile has waited for this refresh.
FetchOk(c, resp) ==
    /\ tcall[c].pc = "fetching"
    /\ tokenState' = StoreToken(tokenState, resp, tcall[c].now)
    /\ mutexHolder' = None
    /\ tcall' = [d \in Callers |->
            IF d = c
            THEN [tcall[c] EXCEPT !.pc = "done", !.resp = Some(resp), !.again = FALSE,
                                  !.ret = Some(Ok(tokenState'.access_token))]
            ELSE IF tcall[d].pc = "waiting"
                 THEN [tcall[d] EXCEPT !.waitedFor = Some(tokenState')]
                 ELSE tcall[d]]
    /\ UNCHANGED clock
    /\ UNCHANGED <<accVars, regVars, extVars>>

\* get_token, line 64: self.fetch_new_token().await? returns the error
\* (ReturnFetchErrorRetry: the fetch is attempted again)
ReturnFetchErrorRetry(call, e) == [call EXCEPT !.fetches = @ + 1]
ReturnFetchError(call, e) == [call EXCEPT !.pc = "done", !.ret = Some(Err(e))]

\* get_token, line 64: fetch_new_token() failed; `?` returns the error and
\* drops the guard
FetchErr(c) ==
    /\ tcall[c].pc = "fetching"
    /\ mutexHolder' = None
    /\ tcall' = [tcall EXCEPT ![c] =
            [ReturnFetchError(tcall[c], <<"AuthError">>) EXCEPT !.left = Some(tokenState),
                                                                 !.again = FALSE]]
    /\ UNCHANGED <<clock, tokenState>>
    /\ UNCHANGED <<accVars, regVars, extVars>>

\* the caller has its result and may call again
GetTokenReturn(c) ==
    /\ tcall[c].pc = "done"
    /\ tcall' = [tcall EXCEPT ![c] = IdleCall]
    /\ UNCHANGED <<clock, tokenState, mutexHolder>>
    /\ UNCHANGED <<accVars, regVars, extVars>>

\* a minute passes
Tick ==
    /\ clock < MaxClock
    /\ clock' = clock + 1
    /\ UNCHANGED <<tokenState, mutexHolder, tcall>>
    /\ UNCHANGED <<accVars, regVars, extVars>>

TokenNext ==
    \/ \E c \in Callers : GetTokenEnter(c)
    \/ \E c \in Callers : GetTokenLocked(c)
    \/ \E c \in Callers : \E resp \in TokenResponses : FetchOk(c, resp)
    \/ \E c \in Callers : FetchErr(c)
    \/ \E c \in Callers : GetTokenReturn(c)
    \/ Tick

\* ======================================= routing registry: GaiseClientService
\* A model string is a sequence of characters; a name without ':' in it is
\* written as one character.
Colon == ":"

\* str::splitn(2, "::"): where the first "::" at or after position i starts, 0 if none
RECURSIVE FindSepLast(_, _)
FindSepLast(m, i) ==
    IF i + 1 > Len(m) THEN 0
    ELSE LET later == FindSepLast(m, i + 1)
         IN IF later # 0 THEN later
            ELSE IF m[i] = Colon /\ m[i + 1] = Colon THEN i ELSE 0
RECURSIVE FindSepSingleColon(_, _)
FindSepSingleColon(m, i) ==
    IF i > Len(m) THEN 0
    ELSE IF m[i] = Colon THEN i
    ELSE FindSepSingleColon(m, i + 1)
RECURSIVE FindSep(_, _)
FindSep(m, i) ==
    IF i + 1 > Len(m) THEN 0
    ELSE IF m[i] = Colon /\ m[i + 1] = Colon THEN i
    ELSE FindSep(m, i + 1)

\* parse_model, line 149: model.splitn(2, "::").collect()
SplitN2(m) ==
    LET pos == FindSep(m, 1)
    IN IF pos = 0 THEN <<m>>
       ELSE <<SubSeq(m, 1, pos - 1), SubSeq(m, pos + 2, Len(m))>>

\* GaiseClientService::parse_model
ParseModel(m) ==
    LET parts == SplitN2(m)
    IN IF Len(parts) < 2 THEN Err(<<"BadModelFormat">>)
       ELSE Ok(<<parts[1], parts[2]>>)

\* An adapter instance: constructed by a caller's get_client, or handed to add_client.
Instance(kind, provider, by) == [kind |-> kind, provider |-> provider, by |-> by]

\* get_client, lines 96-130: the adapter for the provider, from the configuration
\* (BuildClientDefaultKey: an adapter built with a default where the key is missing)
BuildClientDefaultKey(cfg, provider, by) ==
    IF provider \in {<<"ollama">>, <<"openai">>, <<"bedrock">>, <<"anthropic">>}
       \/ (provider = <<"vertexai">> /\ {"vertexai_sa", "vertexai_api_url"} \subseteq cfg)
    THEN Ok(Instance("built", provider, by))
    ELSE Err(<<"UnknownOrDisabledProvider">>)
BuildClient(cfg, provider, by) ==
    CASE provider = <<"ollama">> -> Ok(Instance("built", provider, by))
      [] provider = <<"vertexai">> ->
            IF "vertexai_sa" \notin cfg THEN Err(<<"ProviderConfigMissing">>)
            ELSE IF "vertexai_api_url" \notin cfg THEN Err(<<"ProviderConfigMissing">>)
            ELSE Ok(Instance("built", provider, by))
      [] provider = <<"openai">> ->
            IF "openai_api_key" \notin cfg THEN Err(<<"ProviderConfigMissing">>)
            ELSE Ok(Instance("built", provider, by))
      [] provider = <<"bedrock">> -> Ok(Instance("built", provider, by))
      [] provider = <<"anthropic">> ->
            IF "anthropic_api_key" \notin cfg THEN Err(<<"ProviderConfigMissing">>)
            ELSE Ok(Instance("built", provider, by))
      [] OTHER -> Err(<<"UnknownOrDisabledProvider">>)

\* HashMap::insert: the entry of k is set, replacing one that is there
Insert(m, k, v) == [x \in DOMAIN m \cup {k} |-> IF x = k THEN v ELSE m[x]]

\* One invocation of the logger: log_request, log_response or log_stream_chunk
LogEntry(kind, op, req, json) ==
    [kind |-> kind, correlation_id |-> req.correlation_id, op |-> op, model |-> req.model,
     json |-> json]

\* if let Some(logger) = &self.logger
\*     { logger.log_xxx(request.correlation_id, op, &request.model, json) }
\* (LoggedTwice: a logger invoked twice)
LoggedTwice(cfg, log, kind, op, req, json) ==
    IF "logger" \in cfg
    THEN log \o <<LogEntry(kind, op, req, json), LogEntry(kind, op, req, json)>>
    ELSE log
Logged(cfg, log, kind, op, req, json) ==
    IF "logger" \in cfg
    THEN Append(log, LogEntry(kind, op, req, json))
    ELSE log

\* req = request.clone(); req.model = actual_model.to_string()
Rewritten(req, actual_model) == [req EXCEPT !.model = actual_model]

\* instruct_stream, lines 226-245: what the filter_map closure yields for an item
FilterMapItemKeepAll(item) == Some(item)
FilterMapItem(item) ==
    IF item.ok
    THEN IF item.val.chunk.kind = "text" /\ item.val.chunk.text = EmptyStr
         THEN None
         ELSE Some(item)
    ELSE Some(item)

IdleReg ==
    [pc |-> "idle", op |-> "none", req |-> None, provider |-> EmptyStr,
     actual_model |-> EmptyStr, inst |-> None, result |-> None, log |-> <<>>,
     sent |-> <<>>, answer |-> None, lookups |-> 0, upstream |-> <<>>, delivered |-> <<>>,
     since |-> None]

\* The instance of the last add_client(provider, ..) that has returned, if any
LastAdded(provider) ==
    IF provider \in DOMAIN addedLog THEN Some(addedLog[provider]) ELSE None

Request(model, cid) == [model |-> model, correlation_id |-> cid, input |-> <<"hi">>]

\* The configurations the service is created with.
Configs ==
    { {}, {"logger"}, {"openai_api_key"}, {"openai_api_key", "logger"} }

\* The model strings of the model: every string of at most MaxModelLen
\* characters over ':' and a provider name, and three longer ones: a provider
\* that needs a key, a provider with no built-in adapter, and a model id that
\* holds a second "::".
ModelAlphabet == {Colon, "ollama"}
AllModels ==
    UNION { [1..n -> ModelAlphabet] : n \in 0..MaxModelLen }
    \cup { <<"openai", Colon, Colon, "gpt">>, <<"mock", Colon, Colon, "m">>,
           <<"ollama", Colon, Colon, "m", Colon, Colon, "x">> }
AllRequests == { Request(m, cid) : m \in AllModels, cid \in {None, Some(<<"r1">>)} }

\* The requests of concurrent callers, and the providers they name.
RaceProviders == { <<"ollama">>, <<"mock">> }
RaceConfigs == { {"logger"} }
RaceRequests == { Request(p \o <<Colon, Colon, "m">>, None) : p \in RaceProviders }

\* What an adapter's stream may produce next.
StreamOutputs ==
    { Ok(StreamResponse(TextChunk(EmptyStr), None)),
      Ok(StreamResponse(TextChunk(<<"a">>), None)),
      Ok(StreamResponse(ToolCallChunk(0, None, None, None), None)),
      Ok(StreamResponse(UsageChunk(None, None), None)),
      Err(<<"Transport">>) }

\* get_client returned Ok(inst): get_client's own caller is done, an
\* operation goes on to delegate
Resolved(call, inst) ==
    IF call.op = "get_client"
    THEN [call EXCEPT !.pc = "done", !.inst = Some(inst), !.result = Some(Ok(inst))]
    ELSE [call EXCEPT !.pc = "resolved", !.inst = Some(inst)]

\* instruct / instruct_stream / embeddings, first line: parse_model(&request.model)?
StartRoute(c, op, req) ==
    /\ rcall[c].pc = "idle"
    /\ LET parsed == ParseModel(req.model)
       IN rcall' = [rcall EXCEPT ![c] =
            IF parsed.ok
            THEN [IdleReg EXCEPT !.pc = "lookup", !.op = op, !.req = Some(req),
                                 !.provider = parsed.val[1], !.actual_model = parsed.val[2],
                                 !.since = LastAdded(parsed.val[1])]
            ELSE [IdleReg EXCEPT !.pc = "done", !.op = op, !.req = Some(req),
                                 !.result = Some(Err(parsed.val))]]
    /\ UNCHANGED <<config, clients, builtLog, failedLog, addedLog>>
    /\ UNCHANGED <<accVars, tokenVars, extVars>>

\* service.get_client(provider) called directly
StartGetClient(c, provider) ==
    /\ rcall[c].pc = "idle"
    /\ rcall' = [rcall EXCEPT ![c] =
            [IdleReg EXCEPT !.pc = "lookup", !.op = "get_client", !.provider = provider,
                            !.since = LastAdded(provider)]]
    /\ UNCHANGED <<config, clients, builtLog, failedLog, addedLog>>
    /\ UNCHANGED <<accVars, tokenVars, extVars>>

\* service.add_client(provider, instance) called
StartAddClient(c, provider) ==
    /\ rcall[c].pc = "idle"
    /\ rcall' = [rcall EXCEPT ![c] =
            [IdleReg EXCEPT !.pc = "adding", !.op = "add_client", !.provider = provider,
                            !.inst = Some(Instance("added", provider, c))]]
    /\ UNCHANGED <<config, clients, builtLog, failedLog, addedLog>>
    /\ UNCHANGED <<accVars, tokenVars, extVars>>

\* add_client, lines 142-143: under the write lock, insert
AddClientWrite(c) ==
    /\ rcall[c].pc = "adding"
    /\ clients' = Insert(clients, rcall[c].provider, Unwrap(rcall[c].inst))
    /\ addedLog' = Insert(addedLog, rcall[c].provider, Unwrap(rcall[c].inst))
    /\ rcall' = [rcall EXCEPT ![c].pc = "done", ![c].result = Some(Ok(<<"unit">>))]
    /\ UNCHANGED <<config, builtLog, failedLog>>
    /\ UNCHANGED <<accVars, tokenVars, extVars>>

\* get_client, lines 88-93: under the read lock, return the cached adapter if any
GetClientRead(c) ==
    /\ rcall[c].pc = "lookup"
    /\ LET call == [rcall[c] EXCEPT !.lookups = @ + 1]
       IN rcall' = [rcall EXCEPT ![c] =
            IF rcall[c].provider \in DOMAIN clients
            THEN Resolved(call, clients[rcall[c].provider])
            ELSE [call EXCEPT !.pc = "construct"]]
    /\ UNCHANGED <<config, clients, builtLog, failedLog, addedLog>>
    /\ UNCHANGED <<accVars, tokenVars, extVars>>

\* get_client, lines 96-130: construct the adapter, or return the error
GetClientBuild(c) ==
    /\ rcall[c].pc = "construct"
    /\ LET built == BuildClient(config, rcall[c].provider, c)
       IN IF built.ok
          THEN /\ rcall' = [rcall EXCEPT ![c].pc = "insert", ![c].inst = Some(built.val)]
               /\ builtLog' = builtLog \cup {built.val}
               /\ failedLog' = failedLog
          ELSE /\ rcall' = [rcall EXCEPT ![c].pc = "done", ![c].result = Some(built)]
               /\ builtLog' = builtLog
               /\ failedLog' = failedLog \cup
                    {[provider |-> rcall[c].provider, error |-> built.val,
                      again |-> \E f \in failedLog : f.provider = rcall[c].provider]}
    /\ UNCHANGED <<config, clients, addedLog>>
    /\ UNCHANGED <<accVars, tokenVars, extVars>>

\* get_client, lines 134-136: under the write lock, insert and return the adapter
GetClientWrite(c) ==
    /\ rcall[c].pc = "insert"
    /\ clients' = Insert(clients, rcall[c].provider, Unwrap(rcall[c].inst))
    /\ rcall' = [rcall EXCEPT ![c] = Resolved(rcall[c], Unwrap(rcall[c].inst))]
    /\ UNCHANGED <<config, builtLog, failedLog, addedLog>>
    /\ UNCHANGED <<accVars, tokenVars, extVars>>

\* lines 163-174 (199-211, 256-267): log_request, rewrite the model, call the adapter
Delegate(c) ==
    /\ rcall[c].pc = "resolved"
    /\ LET call == rcall[c]
           req == Unwrap(call.req)
       IN rcall' = [rcall EXCEPT ![c] =
            [call EXCEPT !.pc = "awaiting",
                         !.log = Logged(config, call.log, "request", call.op, req, req),
                         !.sent = Append(@, [inst |-> Unwrap(call.inst), op |-> call.op,
                                             req |-> Rewritten(req, call.actual_model)])]]
    /\ UNCHANGED <<config, clients, builtLog, failedLog, addedLog>>
    /\ UNCHANGED <<accVars, tokenVars, extVars>>

\* the adapter returned Ok: instruct and embeddings log the response and
\* return it (lines 176-186, 269-279); instruct_stream returns the filtered
\* stream (lines 211-249)
AdapterOk(c) ==
    /\ rcall[c].pc = "awaiting"
    /\ LET call == rcall[c]
           req == Unwrap(call.req)
       IN rcall' = [rcall EXCEPT ![c] =
            IF call.op = "instruct_stream"
            THEN [call EXCEPT !.pc = "streaming", !.answer = Some(Ok(<<"stream">>)),
                              !.result = Some(Ok(<<"stream">>))]
            ELSE [call EXCEPT !.pc = "done", !.answer = Some(Ok(<<"response">>)),
                              !.result = Some(Ok(<<"response">>)),
                              !.log = Logged(config, call.log, "response", call.op, req, <<"response">>)]]
    /\ UNCHANGED <<config, clients, builtLog, failedLog, addedLog>>
    /\ UNCHANGED <<accVars, tokenVars, extVars>>

\* The errors an adapter's operation may return.
AdapterErrors == { <<"UpstreamHttpError">>, <<"Transport">> }

\* client.instruct(&req).await? (and instruct_stream, embeddings): the
\* adapter's error is the operation's result
\* (ReturnAdapterErrorRetry: the adapter is called again after an error)
ReturnAdapterErrorRetry(call, e) == [call EXCEPT !.pc = "resolved", !.answer = Some(Err(e))]
ReturnAdapterError(call, e) ==
    [call EXCEPT !.pc = "done", !.answer = Some(Err(e)), !.result = Some(Err(e))]

\* the adapter returned an error: `?` returns it
AdapterErr(c, e) ==
    /\ rcall[c].pc = "awaiting"
    /\ rcall' = [rcall EXCEPT ![c] = ReturnAdapterError(rcall[c], e)]
    /\ UNCHANGED <<config, clients, builtLog, failedLog, addedLog>>
    /\ UNCHANGED <<accVars, tokenVars, extVars>>

\* instruct_stream, lines 220-247: the adapter's stream produces an item; the
\* closure logs an Ok item and yields it, or drops it
StreamItem(c, item) ==
    /\ rcall[c].pc = "streaming"
    /\ Len(rcall[c].upstream) < MaxStream
    /\ LET call == rcall[c]
           req == Unwrap(call.req)
           out == FilterMapItem(item)
       IN rcall' = [rcall EXCEPT ![c] =
            [call EXCEPT !.upstream = Append(@, item),
                         !.log = IF item.ok
                                 THEN Logged(config, call.log, "stream_chunk", call.op, req, item.val)
                                 ELSE call.log,
                         !.delivered = IF IsSome(out) THEN Append(@, Unwrap(out)) ELSE @]]
    /\ UNCHANGED <<config, clients, builtLog, failedLog, addedLog>>
    /\ UNCHANGED <<accVars, tokenVars, extVars>>

\* the adapter's stream ends, and with it the filtered stream
StreamEnd(c) ==
    /\ rcall[c].pc = "streaming"
    /\ rcall' = [rcall EXCEPT ![c].pc = "done"]
    /\ UNCHANGED <<config, clients, builtLog, failedLog, addedLog>>
    /\ UNCHANGED <<accVars, tokenVars, extVars>>

\* the caller has its result and may call again
RegistryReturn(c) ==
    /\ rcall[c].pc = "done"
    /\ rcall' = [rcall EXCEPT ![c] = IdleReg]
    /\ UNCHANGED <<config, clients, builtLog, failedLog, addedLog>>
    /\ UNCHANGED <<accVars, tokenVars, extVars>>

\* Concurrent callers of one service: get_client, add_client, instruct
Next ==
    \/ \E c \in Callers : \E req \in RaceRequests : StartRoute(c, "instruct", req)
    \/ \E c \in Callers : \E p \in RaceProviders : StartGetClient(c, p)
    \/ \E c \in Callers : \E p \in RaceProviders : StartAddClient(c, p)
    \/ \E c \in Callers : AddClientWrite(c)
    \/ \E c \in Callers : GetClientRead(c)
    \/ \E c \in Callers : GetClientBuild(c)
    \/ \E c \in Callers : GetClientWrite(c)
    \/ \E c \in Callers : Delegate(c)
    \/ \E c \in Callers : AdapterOk(c)
    \/ \E c \in Callers : \E e \in AdapterErrors : AdapterErr(c, e)
    \/ \E c \in Callers : RegistryReturn(c)

\* One caller's instruct, instruct_stream and embeddings calls, on any model string
RouteCaller == "c1"
RouteNext ==
    \/ \E op \in {"instruct", "instruct_stream", "embeddings"} : \E req \in AllRequests :
            StartRoute(RouteCaller, op, req)
    \/ GetClientRead(RouteCaller)
    \/ GetClientBuild(RouteCaller)
    \/ GetClientWrite(RouteCaller)
    \/ Delegate(RouteCaller)
    \/ AdapterOk(RouteCaller)
    \/ \E e \in AdapterErrors : AdapterErr(RouteCaller, e)
    \/ \E item \in StreamOutputs : StreamItem(RouteCaller, item)
    \/ StreamEnd(RouteCaller)
    \/ RegistryReturn(RouteCaller)

\* get_client called directly by one caller, under any configuration of the
\* settings the adapters require, for the built-in providers, a provider with
\* no built-in adapter and the empty name
ResolveConfigs ==
    SUBSET {"vertexai_sa", "vertexai_api_url", "openai_api_key", "anthropic_api_key"}
ResolveProviders ==
    { <<"ollama">>, <<"vertexai">>, <<"openai">>, <<"bedrock">>, <<"anthropic">>,
      <<"mock">>, EmptyStr }
ResolveNext ==
    \/ \E p \in ResolveProviders : StartGetClient(RouteCaller, p)
    \/ GetClientRead(RouteCaller)
    \/ GetClientBuild(RouteCaller)
    \/ GetClientWrite(RouteCaller)
    \/ RegistryReturn(RouteCaller)

\* ================================== adapters: instruct_stream over a transport
\* A frame the transport delivers is written as the responses the adapter
\* decodes from it; a transport failure is an Err event.
Providers == { <<"ollama">>, <<"vertexai">>, <<"openai">>, <<"bedrock">>, <<"anthropic">> }

Frames ==
    { <<>>,
      <<StreamResponse(TextChunk(<<"a">>), None)>>,
      <<StreamResponse(TextChunk(EmptyStr), None)>>,
      <<StreamResponse(TextChunk(<<"b">>), None), StreamResponse(UsageChunk(None, None), None)>> }

\* What one transport event can be for the adapter of a provider: the Vertex
\* AI adapter decodes any number of responses from a frame, the Ollama
\* adapter exactly one, the others at most one; Bedrock events carry text.
FramesOf(provider) ==
    CASE provider = <<"vertexai">> -> Frames
      [] provider = <<"ollama">> -> { f \in Frames : Len(f) = 1 }
      [] OTHER -> { f \in Frames : Len(f) <= 1 }
TransportEvents(provider) == { Ok(f) : f \in FramesOf(provider) } \cup { Err(<<"Transport">>) }

IdleStream ==
    [pc |-> "idle", provider |-> EmptyStr, events |-> <<>>, items |-> <<>>, delivered |-> <<>>]

\* Every response of a frame as an Ok item
OkItems(f) == [i \in 1..Len(f) |-> Ok(f[i])]

\* What the adapter's stream yields for one transport event, and whether it ends:
\*   vertexai (lines 159-183), ollama, openai, anthropic: res.map_err(Box::new)
\*     makes a failed read an Err item, and the stream goes on;
\*   bedrock (lines 299-317): `while let Ok(Some(event)) = stream.recv().await`
\*     leaves the loop on a failed recv, and the stream ends with no item.
AdapterYield(provider, ev) ==
    IF ev.ok THEN [items |-> OkItems(ev.val), ended |-> FALSE]
    ELSE IF provider = <<"bedrock">> THEN [items |-> <<>>, ended |-> TRUE]
    ELSE [items |-> <<Err(ev.val)>>, ended |-> FALSE]

\* The registry's filter_map over the items of the adapter's stream
RECURSIVE FilterMapAll(_)
FilterMapAll(s) ==
    IF s = <<>> THEN <<>> ELSE FilterMapItem(Head(s)) \o FilterMapAll(Tail(s))

\* instruct_stream returned a stream for a request routed to the provider's adapter
OpenStream(provider) ==
    /\ astream.pc = "idle"
    /\ astream' = [IdleStream EXCEPT !.pc = "open", !.provider = provider]
    /\ UNCHANGED <<accVars, tokenVars, regVars, astreamRest>>

\* the caller polls the stream and the transport delivers its next event
TransportNext(ev) ==
    /\ astream.pc = "open"
    /\ Len(astream.events) < MaxStream
    /\ ev \in TransportEvents(astream.provider)
    /\ LET y == AdapterYield(astream.provider, ev)
       IN astream' = [astream EXCEPT !.events = Append(@, ev),
                                     !.items = @ \o y.items,
                                     !.delivered = @ \o FilterMapAll(y.items),
                                     !.pc = IF y.ended THEN "closed" ELSE "open"]
    /\ UNCHANGED <<accVars, tokenVars, regVars, astreamRest>>

\* the transport ends (bytes_stream / recv yields None), and so does the stream
TransportEnd ==
    /\ astream.pc = "open"
    /\ astream' = [astream EXCEPT !.pc = "closed"]
    /\ UNCHANGED <<accVars, tokenVars, regVars, astreamRest>>

\* the caller drops the stream
DropStream ==
    /\ astream.pc = "closed"
    /\ astream' = IdleStream
    /\ UNCHANGED <<accVars, tokenVars, regVars, astreamRest>>

StreamSteps ==
    \/ \E p \in Providers : OpenStream(p)
    \/ \E ev \in UNION { TransportEvents(p) : p \in Providers } : TransportNext(ev)
    \/ TransportEnd
    \/ DropStream

\* ============================================ adapters: the HTTP operations
\* The adapters that call their provider over HTTP, and their operations
\* that do (the Anthropic adapter's embeddings makes no call).
HttpProviders == { <<"ollama">>, <<"openai">>, <<"anthropic">>, <<"vertexai">> }
HttpOps(provider) ==
    IF provider = <<"anthropic">> THEN {"instruct", "instruct_stream"}
    ELSE {"instruct", "instruct_stream", "embeddings"}

\* The answers of the provider: a status and a body, which is the JSON of a
\* response, the JSON of an error, or text that is not JSON
Statuses == {200, 204, 400, 404, 500}
ResponseJson == <<"{", "response", "}">>
Bodies == { ResponseJson, <<"{", "error", "}">>, <<"quota">>, EmptyStr }

\* reqwest StatusCode::is_success: 200..=299
IsSuccess(status) == status >= 200 /\ status <= 299

\* response.json() / serde_json::from_str(&body)?: the body as the provider's response type
Decode(body) ==
    IF body = ResponseJson THEN Ok(<<"response">>) ELSE Err(<<"DecodeError">>)

\* return Err(format!("... API error: {}", err_text).into())
HttpError(body) == Err([kind |-> "UpstreamHttpError", body |-> body])

\* What the operation returns for the provider's answer:
\*   ollama (182-184, 244-249, 285-290), openai (203-205, 275-280, 319-324),
\*   anthropic (257-259, 342-347), vertexai instruct_stream (154-159):
\*     a status that is not a success returns the error with the body text,
\*     else the body is decoded, or the byte stream wrapped;
\*   vertexai instruct (202-216) and embeddings (234-247): the body is
\*     decoded whatever the status.
HttpResult(provider, op, status, body) ==
    IF provider = <<"vertexai">> /\ op \in {"instruct", "embeddings"}
    THEN Decode(body)
    ELSE IF ~IsSuccess(status) THEN HttpError(body)
    ELSE IF op = "instruct_stream" THEN Ok(<<"stream">>)
    ELSE Decode(body)

IdleHttp ==
    [pc |-> "idle", provider |-> EmptyStr, op |-> "none", status |-> 0, body |-> EmptyStr,
     result |-> None]

\* the operation sends its request
HttpSend(provider, op) ==
    /\ http.pc = "idle"
    /\ op \in HttpOps(provider)
    /\ http' = [IdleHttp EXCEPT !.pc = "sent", !.provider = provider, !.op = op]
    /\ UNCHANGED <<accVars, tokenVars, regVars, httpRest>>

\* the provider answers, and the operation returns
HttpAnswer(status, body) ==
    /\ http.pc = "sent"
    /\ http' = [http EXCEPT !.pc = "done", !.status = status, !.body = body,
                            !.result = Some(HttpResult(http.provider, http.op, status, body))]
    /\ UNCHANGED <<accVars, tokenVars, regVars, httpRest>>

\* the caller has the result
HttpReturn ==
    /\ http.pc = "done"
    /\ http' = IdleHttp
    /\ UNCHANGED <<accVars, tokenVars, regVars, httpRest>>

HttpSteps ==
    \/ \E p \in HttpProviders : \E op \in {"instruct", "instruct_stream", "embeddings"} :
            HttpSend(p, op)
    \/ \E status \in Statuses : \E body \in Bodies : HttpAnswer(status, body)
    \/ HttpReturn

\* =================================================== ikode-cli: file tools
\* A path is the sequence of its components; an absolute path starts at the
\* root, which is the empty sequence. The file system of the model:
\*   /wd (the working directory), /wd/sub, /etc       directories
\*   /wd/f, /etc/secret                               files
\*   /wd/link -> /etc                                 a symlink
WorkingDirectory == <<"wd">>
Dirs == { <<>>, <<"wd">>, <<"wd", "sub">>, <<"etc">> }
Files == { <<"wd", "f">>, <<"etc", "secret">> }
Links == (<<"wd", "link">> :> <<"etc">>)

Parent(path) == IF path = <<>> THEN path ELSE SubSeq(path, 1, Len(path) - 1)

\* Path::canonicalize: every component must exist; '..' and symlinks are resolved
RECURSIVE Canon(_, _)
Canon(cur, rest) ==
    IF rest = <<>> THEN Ok(cur)
    ELSE IF cur \in Files THEN Err(<<"NotADirectory">>)
    ELSE IF Head(rest) = ".." THEN Canon(Parent(cur), Tail(rest))
    ELSE LET next == Append(cur, Head(rest))
         IN IF next \in DOMAIN Links THEN Canon(Links[next], Tail(rest))
            ELSE IF next \in Dirs \cup Files THEN Canon(next, Tail(rest))
            ELSE Err(<<"NotFound">>)
Canonicalize(path) == Canon(<<>>, path)

\* Path::exists
Exists(path) == Canonicalize(path).ok

\* Where the operating system puts a file written through a path whose last
\* names do not exist yet (create_dir_all makes the missing directories):
\* '..' and symlinks are resolved, a missing name is made where it stands
RECURSIVE Resolve(_, _)
Resolve(cur, rest) ==
    IF rest = <<>> THEN Some(cur)
    ELSE IF cur \in Files THEN None
    ELSE IF Head(rest) = ".." THEN Resolve(Parent(cur), Tail(rest))
    ELSE LET next == Append(cur, Head(rest))
         IN IF next \in DOMAIN Links THEN Resolve(Links[next], Tail(rest))
            ELSE Resolve(next, Tail(rest))

\* Path::starts_with: component by component
StartsWith(path, base) ==
    Len(path) >= Len(base) /\ SubSeq(path, 1, Len(base)) = base

\* working_directory.join(requested_path), or the path itself when absolute
Joined(req) == IF req.abs THEN req.comps ELSE WorkingDirectory \o req.comps

\* App::validate_path
ValidatePath(req) ==
    LET c == Canonicalize(Joined(req))
        canonical_path == IF c.ok THEN c.val ELSE Joined(req)
    IN IF ~StartsWith(canonical_path, WorkingDirectory)
       THEN Err(<<"OutsideWorkingDirectory">>)
       ELSE Ok(canonical_path)

\* The file a tool reads or writes once validate_path returned Ok(path):
\*   read_file (506-511), edit_file (559-563): the file must exist;
\*   create_file (596-616): the path must not exist; the parent directories
\*   are made and the file written (the user agreed, or the brave flag is set)
Touched(name, path) ==
    IF name = "create_file"
    THEN IF Exists(path) THEN None ELSE Resolve(<<>>, path)
    ELSE IF Exists(path) THEN Some(Canonicalize(path).val) ELSE None

\* The paths the model asks for: every relative path of at most MaxPathLen
\* components over the names below, and some absolute ones
PathNames == { "..", "sub", "f", "new", "link" }
RelativePaths ==
    { [abs |-> FALSE, comps |-> s] : s \in UNION { [1..n -> PathNames] : n \in 1..MaxPathLen } }
AbsolutePaths ==
    { [abs |-> TRUE, comps |-> s] :
        s \in { <<"etc", "secret">>, <<"etc", "new">>, <<"wd", "f">>, <<"wd", "new">>,
                <<"wd", "..", "etc", "new">> } }
ToolNames == { "read_file", "edit_file", "create_file" }

IdleTool == [pc |-> "idle", name |-> "none", path |-> None, validated |-> None, touched |-> None]

\* handle_tool_call: the arguments are parsed and validate_path called
ToolCall(name, req) ==
    /\ tool.pc = "idle"
    /\ tool' = [IdleTool EXCEPT !.pc = "validated", !.name = name, !.path = Some(req),
                                !.validated = Some(ValidatePath(req))]
    /\ UNCHANGED <<accVars, tokenVars, regVars, toolRest>>

\* handle_tool_call: Ok(validated_path) => the file is read or written;
\* Err(e) => Ok(format!("Error: {}", e))
ToolActs ==
    /\ tool.pc = "validated"
    /\ tool' = [tool EXCEPT !.pc = "done",
                            !.touched = IF Unwrap(tool.validated).ok
                                        THEN Touched(tool.name, Unwrap(tool.validated).val)
                                        ELSE None]
    /\ UNCHANGED <<accVars, tokenVars, regVars, toolRest>>

\* the tool's answer goes back to the model
ToolReturn ==
    /\ tool.pc = "done"
    /\ tool' = IdleTool
    /\ UNCHANGED <<accVars, tokenVars, regVars, toolRest>>

ToolSteps ==
    \/ \E name \in ToolNames : \E req \in RelativePaths \cup AbsolutePaths : ToolCall(name, req)
    \/ ToolActs
    \/ ToolReturn

\* ============================================ ikode-cli: the request history
\* #[arg(long, default_value_t = 80)] max_history, default_value_t = 4 prefix_keep
DefaultMaxHistory == 80
DefaultPrefixKeep == 4

\* usize::saturating_sub
SaturatingSub(a, b) == IF a >= b THEN a - b ELSE 0
Min(a, b) == IF a <= b THEN a ELSE b
Max(a, b) == IF a >= b THEN a ELSE b

\* The i-th message pushed to the history; the first is the system prompt.
Message(i) == [role |-> IF i = 1 THEN "system" ELSE "user", text |-> <<"msg", i>>]

\* "[Note: {} earlier messages were truncated to save context. ...]"
TruncationNotice(n) == [role |-> "system", text |-> <<"truncated", n>>]

\* App::build_request_history
BuildRequestHistory(history, max_history, prefix_keep) ==
    IF max_history = 0 THEN history
    ELSE LET total == Len(history)
         IN IF total <= max_history THEN history
            ELSE LET prefix_end == Min(1 + prefix_keep, total)
                     tail_count == SaturatingSub(max_history, prefix_end)
                     tail_start == SaturatingSub(total, tail_count)
                     actual_tail_start == Max(tail_start, prefix_end)
                 IN SubSeq(history, 1, prefix_end)
                    \o (IF tail_start > prefix_end
                        THEN <<TruncationNotice(tail_start - prefix_end)>> ELSE <<>>)
                    \o SubSeq(history, actual_tail_start + 1, total)

\* App::new: the system prompt is the first message of the history
NewChat ==
    [history |-> <<Message(1)>>, max_history |-> DefaultMaxHistory,
     prefix_keep |-> DefaultPrefixKeep, request |-> None]

\* run_loop: /max-history n
SetMaxHistory(n) ==
    /\ chat' = [chat EXCEPT !.max_history = n, !.request = None]
    /\ UNCHANGED <<accVars, tokenVars, regVars, chatRest>>

\* run_loop: /prefix-keep n
SetPrefixKeep(n) ==
    /\ chat' = [chat EXCEPT !.prefix_keep = n, !.request = None]
    /\ UNCHANGED <<accVars, tokenVars, regVars, chatRest>>

\* process_prompt: a message is pushed to the history
PushMessage ==
    /\ Len(chat.history) < MaxHistoryLen
    /\ chat' = [chat EXCEPT !.history = Append(@, Message(Len(@) + 1)), !.request = None]
    /\ UNCHANGED <<accVars, tokenVars, regVars, chatRest>>

\* process_prompt: input: self.build_request_history()
BuildRequest ==
    /\ chat.request = None
    /\ chat' = [chat EXCEPT !.request =
                    Some(BuildRequestHistory(chat.history, chat.max_history, chat.prefix_keep))]
    /\ UNCHANGED <<accVars, tokenVars, regVars, chatRest>>

ChatSteps ==
    \/ \E n \in 0..MaxSetting : SetMaxHistory(n)
    \/ \E n \in 0..MaxSetting : SetPrefixKeep(n)
    \/ PushMessage
    \/ BuildRequest

\* =========================================== adapters: request translators
\* GaiseContent (File is left out), OneOrMany and GaiseMessage. Bytes are a
\* sequence like a string; base64 puts a marker in front of them.
Text(t) == [type |-> "text", text |-> t]
Image(d) == [type |-> "image", data |-> d, format |-> None]
Audio(d) == [type |-> "audio", data |-> d, format |-> None]
Parts(ps) == [type |-> "parts", parts |-> ps]
One(x) == [many |-> FALSE, items |-> <<x>>]
Many(v) == [many |-> TRUE, items |-> v]
GaiseToolCall(id, name, args) ==
    [id |-> id, type |-> <<"function">>, function |-> [name |-> name, arguments |-> args]]
GaiseMessage(role, content, calls) ==
    [role |-> role, content |-> content, tool_calls |-> calls, tool_call_id |-> None]

\* One(Text { text }): the only content the system branches of Vertex AI and
\* Anthropic read
IsOneText(c) == ~c.many /\ c.items[1].type = "text"

Base64(data) == <<"base64">> \o data
UnwrapOr(o, d) == IF IsSome(o) THEN Unwrap(o) ELSE d

\* serde_json::from_str(s).ok(): a JSON object is recognised by its brace
JsonFromStr(s) == IF s # EmptyStr /\ Head(s) = "{" THEN Some([json |-> s]) ELSE None
EmptyObject == [json |-> <<"{", "}">>]

\* ---- Vertex AI
GooglePart(text, inline_data, tool_call, tool_response) ==
    [text |-> text, inline_data |-> inline_data, tool_call |-> tool_call,
     tool_response |-> tool_response]
GoogleInlineData(mime_type, data) == [mime_type |-> mime_type, data |-> Base64(data)]

\* GooglePart::from_gaise: one part per leaf, Parts flattened recursively
RECURSIVE FromGaise(_)
RECURSIVE FromGaiseFlatMap(_)
FromGaise(gaise) ==
    CASE gaise.type = "text" -> << GooglePart(Some(gaise.text), None, None, None) >>
      [] gaise.type = "audio" ->
            << GooglePart(None,
                   Some(GoogleInlineData(UnwrapOr(gaise.format, <<"audio/mpeg">>), gaise.data)),
                   None, None) >>
      [] gaise.type = "image" ->
            << GooglePart(None,
                   Some(GoogleInlineData(UnwrapOr(gaise.format, <<"image/jpeg">>), gaise.data)),
                   None, None) >>
      [] gaise.type = "parts" -> FromGaiseFlatMap(gaise.parts)
FromGaiseFlatMap(items) ==
    IF items = <<>> THEN <<>> ELSE FromGaise(Head(items)) \o FromGaiseFlatMap(Tail(items))

to_google_role(input) == IF input = <<"assistant">> THEN <<"model">> ELSE input

GoogleToolCallParts(calls) ==
    [i \in 1..Len(calls) |->
        GooglePart(None, None,
            Some([name |-> calls[i].function.name,
                  args |-> IF IsSome(calls[i].function.arguments)
                           THEN UnwrapOr(JsonFromStr(Unwrap(calls[i].function.arguments)),
                                         EmptyObject)
                           ELSE EmptyObject]),
            None)]

\* GoogleInstructRequest::add_content
AddContent(request, message) ==
    IF message.role = <<"system">>
    THEN IF IsSome(message.content)
         THEN LET content == Unwrap(message.content)
                  prompt == IF IsOneText(content) THEN content.items[1].text ELSE EmptyStr
              IN [request EXCEPT !.system_instruction =
                     Some([role |-> <<"system">>,
                           parts |-> << GooglePart(Some(prompt), None, None, None) >>])]
         ELSE request
    ELSE LET fromContent == IF IsSome(message.content)
                            THEN FromGaiseFlatMap(Unwrap(message.content).items)
                            ELSE <<>>
             fromCalls == IF IsSome(message.tool_calls)
                          THEN GoogleToolCallParts(Unwrap(message.tool_calls))
                          ELSE <<>>
             fromResult ==
                IF IsSome(message.tool_call_id) /\ IsSome(message.content)
                THEN LET content == Unwrap(message.content)
                     IN << GooglePart(None, None, None,
                              Some([name |-> Unwrap(message.tool_call_id),
                                    response |->
                                        IF IsOneText(content)
                                        THEN UnwrapOr(JsonFromStr(content.items[1].text),
                                                      [json |-> content.items[1].text])
                                        ELSE [json |-> <<"null">>]])) >>
                ELSE <<>>
             parts == fromContent \o fromCalls \o fromResult
         IN IF parts # <<>>
            THEN [request EXCEPT !.contents =
                    Append(@, [role |-> to_google_role(message.role), parts |-> parts])]
            ELSE request

\* GoogleInstructRequest::from: add_content for every input message in order
RECURSIVE AddContents(_, _)
AddContents(request, input) ==
    IF input = <<>> THEN request
    ELSE AddContents(AddContent(request, Head(input)), Tail(input))
GoogleInstructRequestFrom(input) ==
    AddContents([contents |-> <<>>, system_instruction |-> None], input)

\* ---- Bedrock
\* map_gaise_content_to_bedrock: Text and Image blocks, Parts flattened
\* recursively, the other kinds give no block
RECURSIVE MapGaiseContentToBedrock(_)
RECURSIVE MapGaiseContentsToBedrock(_)
MapGaiseContentToBedrock(content) ==
    CASE content.type = "text" -> << [block |-> "Text", text |-> content.text] >>
      [] content.type = "image" ->
            << [block |-> "Image", format |-> "Jpeg", bytes |-> content.data] >>
      [] content.type = "parts" -> MapGaiseContentsToBedrock(content.parts)
      [] OTHER -> <<>>
MapGaiseContentsToBedrock(items) ==
    IF items = <<>> THEN <<>>
    ELSE MapGaiseContentToBedrock(Head(items)) \o MapGaiseContentsToBedrock(Tail(items))

\* map_gaise_message_to_bedrock: user and assistant messages only
MapGaiseMessageToBedrock(message) ==
    IF message.role \notin { <<"user">>, <<"assistant">> } THEN None
    ELSE Some([role |-> message.role,
               content |-> IF IsSome(message.content)
                           THEN MapGaiseContentsToBedrock(Unwrap(message.content).items)
                           ELSE <<>>])

\* the Text items of a system message, as SystemContentBlock::Text
RECURSIVE SystemTexts(_)
SystemTexts(items) ==
    IF items = <<>> THEN <<>>
    ELSE (IF Head(items).type = "text" THEN << Head(items).text >> ELSE <<>>)
         \o SystemTexts(Tail(items))

\* instruct / instruct_stream, the loop over the inputs
RECURSIVE BedrockInputs(_, _)
BedrockInputs(request, input) ==
    IF input = <<>> THEN request
    ELSE LET message == Head(input)
             next ==
                IF message.role = <<"system">>
                THEN IF IsSome(message.content)
                     THEN [request EXCEPT !.system_messages =
                              @ \o SystemTexts(Unwrap(message.content).items)]
                     ELSE request
                ELSE LET m == MapGaiseMessageToBedrock(message)
                     IN IF IsSome(m)
                        THEN [request EXCEPT !.messages = Append(@, Unwrap(m))]
                        ELSE request
         IN BedrockInputs(next, Tail(input))

\* the converse builder: set_system only when there are system blocks
BedrockConverse(input) ==
    LET r == BedrockInputs([messages |-> <<>>, system_messages |-> <<>>], input)
    IN [messages |-> r.messages,
        system |-> IF r.system_messages # <<>> THEN Some(r.system_messages) ELSE None]

\* ---- OpenAI
\* the text of the Text items that are direct children of a Parts item
RECURSIVE DirectTexts(_)
DirectTexts(parts) ==
    IF parts = <<>> THEN EmptyStr
    ELSE (IF Head(parts).type = "text" THEN Head(parts).text ELSE EmptyStr)
         \o DirectTexts(Tail(parts))

\* From<&GaiseInstructRequest> for OpenAIChatRequest, the filter_map closure:
\* the part an item gives, if any
OpenAIContentPart(item) ==
    CASE item.type = "text" -> Some([type |-> "text", text |-> item.text])
      [] item.type = "image" ->
            Some([type |-> "image_url",
                  url |-> <<"data:">> \o UnwrapOr(item.format, <<"image/jpeg">>)
                          \o <<";base64,">> \o Base64(item.data)])
      [] item.type = "audio" ->
            Some([type |-> "input_audio", data |-> Base64(item.data),
                  format |-> UnwrapOr(item.format, <<"mp3">>)])
      [] item.type = "parts" ->
            LET text_acc == DirectTexts(item.parts)
            IN IF text_acc = EmptyStr THEN None ELSE Some([type |-> "text", text |-> text_acc])

RECURSIVE OpenAIContentParts(_)
OpenAIContentParts(items) ==
    IF items = <<>> THEN <<>>
    ELSE OpenAIContentPart(Head(items)) \o OpenAIContentParts(Tail(items))

\* OpenAIContent: a lone text part is sent as a plain string
OpenAIContent(items) ==
    LET parts == OpenAIContentParts(items)
    IN IF Len(parts) = 1 /\ parts[1].type = "text"
       THEN [kind |-> "Text", text |-> parts[1].text]
       ELSE [kind |-> "Parts", parts |-> parts]

OpenAIMessage(m) ==
    [role |-> m.role,
     content |-> IF IsSome(m.content) THEN Some(OpenAIContent(Unwrap(m.content).items)) ELSE None,
     tool_calls |->
        IF IsSome(m.tool_calls)
        THEN LET tcs == Unwrap(m.tool_calls)
             IN Some([i \in 1..Len(tcs) |->
                        [id |-> tcs[i].id, type |-> tcs[i].type,
                         function |-> [name |-> tcs[i].function.name,
                                       arguments |-> UnwrapOr(tcs[i].function.arguments,
                                                              EmptyStr)]]])
        ELSE None,
     tool_call_id |-> m.tool_call_id]

\* (OpenAIChatRequestSkipSystem: system messages are left out of the list)
OpenAIChatRequestSkipSystem(input) ==
    LET kept == SelectSeq(input, LAMBDA m : m.role # <<"system">>)
    IN [messages |-> [i \in 1..Len(kept) |-> OpenAIMessage(kept[i])]]
OpenAIChatRequestFrom(input) ==
    [messages |-> [i \in 1..Len(input) |-> OpenAIMessage(input[i])]]

\* ---- Anthropic
\* From<&GaiseInstructRequest> for AnthropicRequest, the filter_map closure
AnthropicContentBlock(item) ==
    CASE item.type = "text" -> Some([type |-> "text", text |-> item.text])
      [] item.type = "image" ->
            Some([type |-> "image",
                  source |-> [type |-> <<"base64">>,
                              media_type |-> UnwrapOr(item.format, <<"image/jpeg">>),
                              data |-> Base64(item.data)]])
      [] OTHER -> None

RECURSIVE AnthropicContentBlocks(_)
AnthropicContentBlocks(items) ==
    IF items = <<>> THEN <<>>
    ELSE AnthropicContentBlock(Head(items)) \o AnthropicContentBlocks(Tail(items))

AnthropicContent(content) ==
    IF IsSome(content)
    THEN LET blocks == AnthropicContentBlocks(Unwrap(content).items)
         IN IF Len(blocks) = 1 /\ blocks[1].type = "text"
            THEN [kind |-> "Text", text |-> blocks[1].text]
            ELSE [kind |-> "Blocks", blocks |-> blocks]
    ELSE [kind |-> "Text", text |-> EmptyStr]

\* the texts of the text blocks, joined with "\n"
RECURSIVE Join(_)
Join(texts) ==
    IF texts = <<>> THEN EmptyStr
    ELSE IF Len(texts) = 1 THEN texts[1]
    ELSE texts[1] \o <<"\n">> \o Join(Tail(texts))
JoinTexts(blocks) ==
    LET textBlocks == SelectSeq(blocks, LAMBDA b : b.type = "text")
    IN Join([i \in 1..Len(textBlocks) |-> textBlocks[i].text])

\* tool calls become tool_use blocks, a tool result becomes a tool_result block
AnthropicFinalContent(m) ==
    LET content == AnthropicContent(m.content)
        asBlocks == IF content.kind = "Text"
                    THEN << [type |-> "text", text |-> content.text] >>
                    ELSE content.blocks
    IN IF IsSome(m.tool_calls)
       THEN LET tcs == Unwrap(m.tool_calls)
            IN [kind |-> "Blocks",
                blocks |-> asBlocks \o
                    [i \in 1..Len(tcs) |->
                        [type |-> "tool_use", id |-> tcs[i].id,
                         name |-> tcs[i].function.name,
                         input |-> IF IsSome(tcs[i].function.arguments)
                                   THEN UnwrapOr(JsonFromStr(Unwrap(tcs[i].function.arguments)),
                                                 EmptyObject)
                                   ELSE EmptyObject]]]
       ELSE IF IsSome(m.tool_call_id)
       THEN [kind |-> "Blocks",
             blocks |-> << [type |-> "tool_result", tool_use_id |-> Unwrap(m.tool_call_id),
                            content |-> IF content.kind = "Text" THEN content.text
                                        ELSE JoinTexts(content.blocks)] >>]
       ELSE content

\* the loop over the messages: a system message sets system_prompt (when it
\* is One(Text)) and is skipped, every other message is pushed
RECURSIVE AnthropicMessages(_, _)
AnthropicMessages(request, input) ==
    IF input = <<>> THEN request
    ELSE LET m == Head(input)
             next ==
                IF m.role = <<"system">>
                THEN IF IsSome(m.content) /\ IsOneText(Unwrap(m.content))
                     THEN [request EXCEPT !.system = Some(Unwrap(m.content).items[1].text)]
                     ELSE request
                ELSE [request EXCEPT !.messages =
                        Append(@, [role |-> m.role, content |-> AnthropicFinalContent(m)])]
         IN AnthropicMessages(next, Tail(input))

AnthropicRequestFrom(input) ==
    AnthropicMessages([messages |-> <<>>, system |-> None], input)

\* ---- Ollama
\* From<&GaiseInstructRequest> for OllamaChatRequest, the loop over the items
\* of one message: text is appended to content, images are collected
RECURSIVE OllamaContents(_, _)
OllamaContents(out, contents) ==
    IF contents = <<>> THEN out
    ELSE LET item == Head(contents)
             next ==
                CASE item.type = "text" -> [out EXCEPT !.content = @ \o item.text]
                  [] item.type = "image" -> [out EXCEPT !.images = Append(@, Base64(item.data))]
                  [] item.type = "parts" -> [out EXCEPT !.content = @ \o DirectTexts(item.parts)]
                  [] OTHER -> out
         IN OllamaContents(next, Tail(contents))

OllamaMessage(m) ==
    LET out == OllamaContents([content |-> EmptyStr, images |-> <<>>],
                              IF IsSome(m.content) THEN Unwrap(m.content).items ELSE <<>>)
    IN [role |-> m.role,
        content |-> out.content,
        images |-> IF out.images = <<>> THEN None ELSE Some(out.images),
        tool_calls |->
            IF IsSome(m.tool_calls)
            THEN LET tcs == Unwrap(m.tool_calls)
                 IN Some([i \in 1..Len(tcs) |->
                        [function |->
                            [name |-> tcs[i].function.name,
                             arguments |->
                                IF IsSome(tcs[i].function.arguments)
                                THEN UnwrapOr(JsonFromStr(Unwrap(tcs[i].function.arguments)),
                                              EmptyObject)
                                ELSE EmptyObject]]])
            ELSE None]

OllamaChatRequestFrom(input) ==
    [messages |-> [i \in 1..Len(input) |-> OllamaMessage(input[i])]]

\* ---- tool schemas
\* GaiseToolParameter and GaiseTool
GaiseToolParameter(type, properties, items, required) ==
    [type |-> type, description |-> None, properties |-> properties, items |-> items,
     required |-> required]
GaiseTool(name, parameters) == [name |-> name, description |-> None, parameters |-> parameters]

\* map_param of the OpenAI, Anthropic and Ollama adapters (the same code in
\* the three): type, description and items
RECURSIVE map_param(_)
map_param(p) ==
    LET prop_type == UnwrapOr(p.type, <<"string">>)
    IN [type |-> IF prop_type = <<"text">> THEN <<"string">> ELSE prop_type,
        description |-> UnwrapOr(p.description, EmptyStr),
        items |-> IF IsSome(p.items) THEN Some(map_param(Unwrap(p.items))) ELSE None]

\* OpenAIParameters / AnthropicInputSchema / OllamaParameters
ObjectParameters(t) ==
    [type |-> <<"object">>,
     properties |->
        IF IsSome(t.parameters) /\ IsSome(Unwrap(t.parameters).properties)
        THEN LET props == Unwrap(Unwrap(t.parameters).properties)
             IN [k \in DOMAIN props |-> map_param(props[k])]
        ELSE EmptyMap,
     required |->
        IF IsSome(t.parameters) THEN UnwrapOr(Unwrap(t.parameters).required, <<>>) ELSE <<>>]

\* From<GaiseTool> for OpenAITool, for AnthropicTool, for OllamaTool
OpenAITool(t) ==
    [type |-> <<"function">>,
     function |-> [name |-> t.name, description |-> t.description,
                   parameters |-> ObjectParameters(t)]]
AnthropicTool(t) ==
    [name |-> t.name, description |-> t.description, input_schema |-> ObjectParameters(t)]
OllamaTool(t) ==
    [type |-> <<"function">>,
     function |-> [name |-> t.name, description |-> UnwrapOr(t.description, EmptyStr),
                   parameters |-> ObjectParameters(t)]]

\* GoogleSchema::from
RECURSIVE GoogleSchemaFrom(_)
GoogleSchemaFrom(source) ==
    [type |-> UnwrapOr(source.type, <<"object">>),
     description |-> source.description,
     properties |->
        IF IsSome(source.properties)
        THEN LET props == Unwrap(source.properties)
             IN Some([k \in DOMAIN props |-> GoogleSchemaFrom(props[k])])
        ELSE None,
     items |-> IF IsSome(source.items) THEN Some(GoogleSchemaFrom(Unwrap(source.items))) ELSE None,
     required |-> source.required]

\* GoogleInstructRequest::from, the function declaration of one tool
GoogleFunctionDeclaration(t) ==
    [name |-> t.name,
     description |-> UnwrapOr(t.description, EmptyStr),
     parameters |->
        IF IsSome(t.parameters) THEN GoogleSchemaFrom(Unwrap(t.parameters))
        ELSE [type |-> <<"object">>, description |-> None, properties |-> Some(EmptyMap),
              items |-> None, required |-> None]]

\* serde_json::to_value(&GaiseToolParameter) and to_document: an object with
\* the fields that are present (skip_serializing_if = "Option::is_none")
RECURSIVE ToDocument(_)
ToDocument(p) ==
    LET present == { f \in {"type", "description", "properties", "items", "required"} :
                        IsSome(p[f]) }
    IN [f \in present |->
            CASE f = "properties" ->
                    LET props == Unwrap(p.properties)
                    IN [k \in DOMAIN props |-> ToDocument(props[k])]
              [] f = "items" -> ToDocument(Unwrap(p.items))
              [] OTHER -> Unwrap(p[f])]

\* Bedrock, ToolSpecification: the parameters serialized as they are
BedrockToolSpec(t) ==
    [name |-> t.name, description |-> t.description,
     input_schema |-> IF IsSome(t.parameters) THEN Some(ToDocument(Unwrap(t.parameters)))
                      ELSE None]

\* ---- the translations as steps
\* Most messages of a translated request.
MaxMessages == 3

Bytes == <<"0x">>
InputMessages ==
    { GaiseMessage(<<"system">>, Some(One(Text(<<"s1">>))), None),
      GaiseMessage(<<"system">>, Some(One(Text(<<"s2">>))), None),
      GaiseMessage(<<"system">>, Some(Many(<< Text(<<"s3">>), Text(<<"s4">>) >>)), None),
      GaiseMessage(<<"user">>, Some(One(Text(<<"u">>))), None),
      GaiseMessage(<<"user">>, Some(One(Parts(<< Text(<<"a">>), Image(Bytes) >>))), None),
      GaiseMessage(<<"user">>,
          Some(Many(<< Text(<<"a">>),
                       Parts(<< Text(<<"b">>), Parts(<< Image(Bytes), Text(<<"c">>) >>) >>),
                       Audio(Bytes) >>)), None),
      GaiseMessage(<<"assistant">>, Some(One(Text(<<"r">>))), None),
      GaiseMessage(<<"assistant">>, None,
          Some(<< GaiseToolCall(<<"id">>, <<"f">>, Some(<<"{", "}">>)) >>)) }
Inputs == UNION { [1..n -> InputMessages] : n \in 1..MaxMessages }

TypedParameter(type) == GaiseToolParameter(Some(type), None, None, None)
InputTools ==
    { GaiseTool(<<"none">>, None),
      GaiseTool(<<"flat">>,
          Some(GaiseToolParameter(Some(<<"object">>),
                   Some((<<"q">> :> TypedParameter(<<"text">>))
                        @@ (<<"n">> :> TypedParameter(<<"integer">>))),
                   None, Some(<< <<"q">> >>)))),
      GaiseTool(<<"list">>,
          Some(GaiseToolParameter(Some(<<"object">>),
                   Some(<<"tags">> :> GaiseToolParameter(Some(<<"array">>), None,
                                          Some(TypedParameter(<<"string">>)), None)),
                   None, None))),
      GaiseTool(<<"nested">>,
          Some(GaiseToolParameter(Some(<<"object">>),
                   Some(<<"opts">> :> GaiseToolParameter(Some(<<"object">>),
                                          Some(<<"k">> :> TypedParameter(<<"number">>)),
                                          None, Some(<< <<"k">> >>))),
                   None, Some(<< <<"opts">> >>)))) }

\* the request an adapter builds from the input messages
RequestFor(provider, input) ==
    CASE provider = <<"vertexai">> -> GoogleInstructRequestFrom(input)
      [] provider = <<"bedrock">> -> BedrockConverse(input)
      [] provider = <<"openai">> -> OpenAIChatRequestFrom(input)
      [] provider = <<"anthropic">> -> AnthropicRequestFrom(input)
      [] provider = <<"ollama">> -> OllamaChatRequestFrom(input)

\* the tool declaration an adapter builds from a GaiseTool
ToolFor(provider, t) ==
    CASE provider = <<"vertexai">> -> GoogleFunctionDeclaration(t)
      [] provider = <<"bedrock">> -> BedrockToolSpec(t)
      [] provider = <<"openai">> -> OpenAITool(t)
      [] provider = <<"anthropic">> -> AnthropicTool(t)
      [] provider = <<"ollama">> -> OllamaTool(t)

IdleTranslate == [pc |-> "idle", what |-> "none", provider |-> None, input |-> None,
                  request |-> None]

\* an adapter translates the messages of a request
TranslateRequest(provider, input) ==
    /\ xlat.pc = "idle"
    /\ xlat' = [pc |-> "done", what |-> "messages", provider |-> Some(provider),
                input |-> Some(input), request |-> Some(RequestFor(provider, input))]
    /\ UNCHANGED <<accVars, tokenVars, regVars, xlatRest>>

\* an adapter translates one tool of a request
TranslateTool(provider, t) ==
    /\ xlat.pc = "idle"
    /\ xlat' = [pc |-> "done", what |-> "tool", provider |-> Some(provider),
                input |-> Some(t), request |-> Some(ToolFor(provider, t))]
    /\ UNCHANGED <<accVars, tokenVars, regVars, xlatRest>>

\* the request is sent
TranslateReturn ==
    /\ xlat.pc = "done"
    /\ xlat' = IdleTranslate
    /\ UNCHANGED <<accVars, tokenVars, regVars, xlatRest>>

TranslateSteps ==
    \/ \E provider \in Providers : \E input \in Inputs : TranslateRequest(provider, input)
    \/ \E provider \in Providers : \E t \in InputTools : TranslateTool(provider, t)
    \/ TranslateReturn

\* ================================ adapters: the frames of instruct_stream
\* The bytes of one transport chunk are written as a line: the prefix in
\* front of the payload, and the payload as a JSON object (already parsed),
\* the [DONE] sentinel, text that is no JSON, or nothing.
RawLine(prefix, kind, json) == [prefix |-> prefix, kind |-> kind, json |-> json]
JsonLine(prefix, object) == RawLine(prefix, "json", Some(object))

\* serde_json::from_str / from_slice of the payload
FromStr(line) == IF line.kind = "json" THEN Ok(Unwrap(line.json)) ELSE Err(<<"serde">>)

\* ---- Ollama, instruct_stream lines 188-228: one item per transport chunk
OllamaChatResponse(content, tool_calls, done, prompt_eval_count, eval_count) ==
    [message |-> [content |-> content, tool_calls |-> tool_calls], done |-> done,
     prompt_eval_count |-> prompt_eval_count, eval_count |-> eval_count]

OllamaUsage(chunk) ==
    Ok(StreamResponse(
        UsageChunk(Some([prompt_tokens |-> UnwrapOr(chunk.prompt_eval_count, 0)]),
                   Some([completion_tokens |-> UnwrapOr(chunk.eval_count, 0)])),
        None))
OllamaItem(res) ==
    IF ~res.ok THEN Err(res.val)
    ELSE LET parsed == IF res.val.prefix = "" THEN FromStr(res.val) ELSE Err(<<"serde">>)
         IN IF ~parsed.ok THEN Err(parsed.val)
            ELSE LET chunk == parsed.val
                     tool_calls == chunk.message.tool_calls
                 IN IF IsSome(tool_calls) /\ Unwrap(tool_calls) # <<>>
                    THEN Ok(StreamResponse(
                            ToolCallChunk(0, None, Some(Unwrap(tool_calls)[1].function.name),
                                          Some(Unwrap(tool_calls)[1].function.arguments)),
                            None))
                    ELSE IF chunk.done THEN OllamaUsage(chunk)
                    ELSE Ok(StreamResponse(TextChunk(chunk.message.content), None))
OllamaYield(res) == << OllamaItem(res) >>

\* ---- OpenAI, instruct_stream lines 208-258: map, then filter
OpenAIChatStreamResponse(id, choices) == [id |-> id, choices |-> choices]
OpenAIStreamChoice(content, tool_calls) ==
    [delta |-> [content |-> content, tool_calls |-> tool_calls]]

OpenAIItem(res) ==
    IF ~res.ok THEN Err(res.val)
    ELSE LET line == res.val
         IN IF line.prefix = "data: " /\ line.kind = "done" THEN Err(<<"EOF">>)
            ELSE IF line.prefix # "data: " THEN Err(<<"Unexpected stream format">>)
            ELSE LET parsed == FromStr(line)
                 IN IF ~parsed.ok THEN Err(parsed.val)
                    ELSE LET chunk == parsed.val
                             delta == chunk.choices[1].delta
                         IN IF chunk.choices # <<>> /\ IsSome(delta.tool_calls)
                                /\ Unwrap(delta.tool_calls) # <<>>
                            THEN LET tc == Unwrap(delta.tool_calls)[1]
                                     name == IF IsSome(tc.function)
                                             THEN Unwrap(tc.function).name ELSE None
                                     arguments == IF IsSome(tc.function)
                                                  THEN Unwrap(tc.function).arguments ELSE None
                                 IN Ok(StreamResponse(
                                        ToolCallChunk(tc.index, tc.id, name, arguments),
                                        Some(chunk.id)))
                            ELSE IF chunk.choices # <<>> /\ IsSome(delta.content)
                            THEN Ok(StreamResponse(TextChunk(Unwrap(delta.content)),
                                                   Some(chunk.id)))
                            ELSE Err(<<"Empty chunk">>)
\* the filter of lines 250-256
OpenAIYield(res) ==
    LET item == OpenAIItem(res)
    IN IF ~item.ok /\ item.val \in { <<"EOF">>, <<"Empty chunk">> } THEN <<>> ELSE << item >>

\* ---- Anthropic, instruct_stream lines 262-324: map, then filter
AnthropicStreamResponse(type, index, delta, content_block, message) ==
    [type |-> type, index |-> index, delta |-> delta, content_block |-> content_block,
     message |-> message]
AnthropicDelta(text, partial_json) == [text |-> text, partial_json |-> partial_json]

AnthropicItem(res) ==
    IF ~res.ok THEN Err(res.val)
    ELSE LET line == res.val
         IN IF line.prefix # "data: " THEN Err(<<"Unexpected stream format">>)
            ELSE LET parsed == FromStr(line)
                 IN IF ~parsed.ok THEN Err(parsed.val)
                    ELSE LET chunk == parsed.val
                             external_id == IF IsSome(chunk.message)
                                            THEN Some(Unwrap(chunk.message).id) ELSE None
                         IN IF chunk.type = "content_block_delta" /\ IsSome(chunk.delta)
                                /\ IsSome(Unwrap(chunk.delta).text)
                            THEN Ok(StreamResponse(TextChunk(Unwrap(Unwrap(chunk.delta).text)),
                                                   external_id))
                            ELSE IF chunk.type = "content_block_delta" /\ IsSome(chunk.delta)
                                    /\ IsSome(Unwrap(chunk.delta).partial_json)
                            THEN Ok(StreamResponse(
                                    ToolCallChunk(UnwrapOr(chunk.index, 0), None, None,
                                                  Some(Unwrap(Unwrap(chunk.delta).partial_json))),
                                    external_id))
                            ELSE IF chunk.type = "content_block_start"
                                    /\ IsSome(chunk.content_block)
                                    /\ Unwrap(chunk.content_block).type = "tool_use"
                            THEN Ok(StreamResponse(
                                    ToolCallChunk(UnwrapOr(chunk.index, 0),
                                                  Some(Unwrap(chunk.content_block).id),
                                                  Some(Unwrap(chunk.content_block).name), None),
                                    external_id))
                            ELSE Err(<<"Empty chunk">>)
\* the filter of lines 319-324
AnthropicYield(res) ==
    LET item == AnthropicItem(res)
    IN IF ~item.ok /\ item.val = <<"Empty chunk">> THEN <<>> ELSE << item >>

\* ---- the chunks a provider's transport may deliver
WireProviders == { <<"ollama">>, <<"openai">>, <<"anthropic">> }

OllamaCall == [function |-> [name |-> <<"f">>, arguments |-> <<"{", "}">>]]
OllamaLines ==
    { JsonLine("", OllamaChatResponse(<<"a">>, None, FALSE, None, None)),
      JsonLine("", OllamaChatResponse(EmptyStr, Some(<< OllamaCall >>), FALSE, None, None)),
      JsonLine("", OllamaChatResponse(EmptyStr, None, TRUE, Some(7), Some(3))),
      JsonLine("", OllamaChatResponse(EmptyStr, Some(<<>>), TRUE, None, Some(3))),
      JsonLine("", OllamaChatResponse(EmptyStr, Some(<< OllamaCall >>), TRUE, Some(7), Some(3))),
      RawLine("", "garbage", None) }

OpenAICall == [index |-> 0, id |-> Some(<<"c1">>),
               function |-> Some([name |-> Some(<<"f">>), arguments |-> None])]
OpenAILines ==
    { RawLine("data: ", "done", None),
      JsonLine("data: ", OpenAIChatStreamResponse(<<"x1">>,
                            << OpenAIStreamChoice(Some(<<"a">>), None) >>)),
      JsonLine("data: ", OpenAIChatStreamResponse(<<"x1">>,
                            << OpenAIStreamChoice(None, Some(<< OpenAICall >>)) >>)),
      JsonLine("data: ", OpenAIChatStreamResponse(<<"x1">>,
                            << OpenAIStreamChoice(None, None) >>)),
      RawLine(": ", "garbage", None),
      RawLine("", "none", None) }

AnthropicLines ==
    { JsonLine("data: ", AnthropicStreamResponse("content_block_delta", Some(0),
                            Some(AnthropicDelta(Some(<<"a">>), None)), None, None)),
      JsonLine("data: ", AnthropicStreamResponse("content_block_delta", Some(1),
                            Some(AnthropicDelta(None, Some(<<"{">>))), None, None)),
      JsonLine("data: ", AnthropicStreamResponse("content_block_start", Some(1), None,
                            Some([type |-> "tool_use", id |-> <<"c1">>, name |-> <<"f">>]),
                            None)),
      JsonLine("data: ", AnthropicStreamResponse("content_block_start", Some(0), None,
                            Some([type |-> "text", id |-> EmptyStr, name |-> EmptyStr]),
                            None)),
      JsonLine("data: ", AnthropicStreamResponse("message_start", None, None, None,
                            Some([id |-> <<"m1">>]))),
      JsonLine("data: ", AnthropicStreamResponse("ping", None, None, None, None)),
      RawLine("data: ", "done", None),
      RawLine("event: ", "garbage", None) }

LinesOf(provider) ==
    CASE provider = <<"ollama">> -> OllamaLines
      [] provider = <<"openai">> -> OpenAILines
      [] provider = <<"anthropic">> -> AnthropicLines
WireEvents(provider) == { Ok(line) : line \in LinesOf(provider) } \cup { Err(<<"Transport">>) }

\* what the adapter's stream yields for one transport chunk
WireYield(provider, res) ==
    CASE provider = <<"ollama">> -> OllamaYield(res)
      [] provider = <<"openai">> -> OpenAIYield(res)
      [] provider = <<"anthropic">> -> AnthropicYield(res)

\* Ollama's final object is the one with done: true
IsFinal(provider, res) ==
    provider = <<"ollama">> /\ res.ok /\ res.val.kind = "json" /\ Unwrap(res.val.json).done

IdleWire == [pc |-> "idle", provider |-> EmptyStr, chunks |-> <<>>, yields |-> <<>>,
             items |-> <<>>]

\* instruct_stream returned the mapped stream of a successful response
OpenWire(provider) ==
    /\ wire.pc = "idle"
    /\ wire' = [IdleWire EXCEPT !.pc = "open", !.provider = provider]
    /\ UNCHANGED <<accVars, tokenVars, regVars, wireRest>>

\* the caller polls, the transport delivers its next chunk, and the stream
\* yields what the adapter makes of it; nothing follows Ollama's final object
WireChunk(res) ==
    /\ wire.pc = "open"
    /\ Len(wire.chunks) < MaxStream
    /\ res \in WireEvents(wire.provider)
    /\ \A i \in 1..Len(wire.chunks) : ~IsFinal(wire.provider, wire.chunks[i])
    /\ LET y == WireYield(wire.provider, res)
       IN wire' = [wire EXCEPT !.chunks = Append(@, res),
                               !.yields = Append(@, y),
                               !.items = @ \o y]
    /\ UNCHANGED <<accVars, tokenVars, regVars, wireRest>>

\* the response body ends, and so does the stream
WireEnd ==
    /\ wire.pc = "open"
    /\ wire' = [wire EXCEPT !.pc = "closed"]
    /\ UNCHANGED <<accVars, tokenVars, regVars, wireRest>>

\* the caller drops the stream
WireDrop ==
    /\ wire.pc = "closed"
    /\ wire' = IdleWire
    /\ UNCHANGED <<accVars, tokenVars, regVars, wireRest>>

WireSteps ==
    \/ \E provider \in WireProviders : OpenWire(provider)
    \/ \E res \in UNION { WireEvents(provider) : provider \in WireProviders } : WireChunk(res)
    \/ WireEnd
    \/ WireDrop

\* ==================================================== ikode-cli: edit_file
\* File contents and the texts of a call are strings over a two-letter alphabet.
MaxFileLen == 3
MaxTextLen == 2
Letters == { "a", "b" }
StringsUpTo(n) == UNION { [1..k -> Letters] : k \in 0..n }

\* str::starts_with on the rest of s from position i (1-based)
MatchesAt(s, p, i) == i + Len(p) - 1 <= Len(s) /\ SubSeq(s, i, i + Len(p) - 1) = p

\* content.matches(&args.old_text).count(): the matches are found from left to
\* right and the search goes on after the end of a match; the empty pattern
\* matches at every boundary
RECURSIVE MatchCountFrom(_, _, _)
MatchCountFrom(s, p, i) ==
    IF i + Len(p) - 1 > Len(s) THEN 0
    ELSE IF MatchesAt(s, p, i) THEN 1 + MatchCountFrom(s, p, i + Len(p))
    ELSE MatchCountFrom(s, p, i + 1)
MatchCount(s, p) == IF p = <<>> THEN Len(s) + 1 ELSE MatchCountFrom(s, p, 1)

\* splicing t in place of the n characters of s from position i
Splice(s, i, n, t) == SubSeq(s, 1, i - 1) \o t \o SubSeq(s, i + n, Len(s))

\* content.replacen(&args.old_text, &args.new_text, 1): the first match, if any
Replacen1(s, p, t) ==
    LET at == { i \in 1..(Len(s) + 1) : MatchesAt(s, p, i) }
    IN IF at = {} THEN s
       ELSE Splice(s, CHOOSE i \in at : \A k \in at : i <= k, Len(p), t)

EditFileArgs(old_text, new_text) == [old_text |-> old_text, new_text |-> new_text]

\* what the handler answers, and the content it passes to fs::write (if any)
EditOutcome(file, args, brave, confirmed, writable) ==
    IF ~IsSome(file) THEN [answer |-> "Error reading file", write |-> None]
    ELSE LET content == Unwrap(file)
             count == MatchCount(content, args.old_text)
         IN IF count = 0 THEN [answer |-> "Error: old_text not found in file", write |-> None]
            ELSE IF count > 1
            THEN [answer |-> "Error: old_text matches several locations", write |-> None]
            ELSE IF ~brave /\ ~confirmed
            THEN [answer |-> "File edit cancelled by user.", write |-> None]
            ELSE LET new_content == Replacen1(content, args.old_text, args.new_text)
                 IN IF writable
                    THEN [answer |-> "File updated successfully.", write |-> Some(new_content)]
                    ELSE [answer |-> "Error writing file", write |-> None]

\* file: the file at the validated path (None: there is none);
\* before: what it held when the call in progress began
IdleEdit == [pc |-> "idle", file |-> None, before |-> None, args |-> None, answer |-> None]

\* the file the path names is created or rewritten outside edit_file
FileWritten(content) ==
    /\ edit.pc = "idle"
    /\ edit.file # Some(content)
    /\ edit' = [IdleEdit EXCEPT !.file = Some(content)]
    /\ UNCHANGED <<accVars, tokenVars, regVars, editRest>>

\* handle_tool_call("edit_file", arguments) once validate_path returned Ok
EditFile(args, brave, confirmed, writable) ==
    /\ edit.pc = "idle"
    /\ LET outcome == EditOutcome(edit.file, args, brave, confirmed, writable)
       IN /\ IsSome(outcome.write) => Len(Unwrap(outcome.write)) <= MaxFileLen
          /\ edit' = [pc |-> "done",
                      file |-> IF IsSome(outcome.write) THEN outcome.write ELSE edit.file,
                      before |-> Some(edit.file), args |-> Some(args),
                      answer |-> Some(outcome.answer)]
    /\ UNCHANGED <<accVars, tokenVars, regVars, editRest>>

\* the answer goes back to the model
EditReturn ==
    /\ edit.pc = "done"
    /\ edit' = [IdleEdit EXCEPT !.file = edit.file]
    /\ UNCHANGED <<accVars, tokenVars, regVars, editRest>>

EditSteps ==
    \/ \E content \in StringsUpTo(MaxFileLen) : FileWritten(content)
    \/ \E old_text, new_text \in StringsUpTo(MaxTextLen) : \E brave, confirmed, writable \in BOOLEAN :
          EditFile(EditFileArgs(old_text, new_text), brave, confirmed, writable)
    \/ EditReturn

\* ================================================ ikode-cli: process_prompt
MaxRequests == 3

\* the tool message pushed for a handled call
ToolMessage(result, id) ==
    [GaiseMessage(<<"tool">>, Some(One(Text(result))), None) EXCEPT !.tool_call_id = Some(id)]

\* handle_tool_call: serde_json::from_str(args_str)? ends it with Err when the
\* arguments do not parse, otherwise the tool's answer is returned
TaskArguments == <<"{", "tasks", "}">>
HandleToolCall(tool_call) ==
    IF tool_call.function.arguments = Some(TaskArguments)
    THEN Ok(<<"Tasks added.">>) ELSE Err(<<"serde">>)

\* for tool_call in tool_calls { handle_tool_call(..)?; history.push(tool message) }
RECURSIVE HandleToolCalls(_, _)
HandleToolCalls(history, tool_calls) ==
    IF tool_calls = <<>> THEN Ok(history)
    ELSE LET result == HandleToolCall(Head(tool_calls))
         IN IF ~result.ok THEN Err(history)
            ELSE HandleToolCalls(Append(history, ToolMessage(result.val, Head(tool_calls).id)),
                                 Tail(tool_calls))

\* for assistant_message in assistant_messages { ... }: where the loop body
\* leaves the run, and the history it leaves
RECURSIVE EachMessage(_, _)
EachMessage(history, assistant_messages) ==
    IF assistant_messages = <<>> THEN [pc |-> "loop", history |-> history]
    ELSE LET assistant_message == Head(assistant_messages)
             pushed1 == Append(history, assistant_message)
         IN IF IsSome(assistant_message.tool_calls)
            THEN LET handled == HandleToolCalls(pushed1, Unwrap(assistant_message.tool_calls))
                 IN IF ~handled.ok THEN [pc |-> "failed", history |-> handled.val]
                    ELSE EachMessage(handled.val, Tail(assistant_messages))
            ELSE [pc |-> "returned", history |-> pushed1]

\* history: App::history from the prompt of this run on;
\* sent: the length history had at each request; responses: their outputs
IdleRun == [pc |-> "idle", history |-> <<>>, sent |-> <<>>, responses |-> <<>>]

\* process_prompt pushes the user message and enters the loop
ProcessPrompt ==
    /\ run.pc = "idle"
    /\ run' = [IdleRun EXCEPT !.pc = "loop",
                 !.history = << GaiseMessage(<<"user">>, Some(One(Text(<<"u">>))), None) >>]
    /\ UNCHANGED <<accVars, tokenVars, regVars, runRest>>

\* one turn of the loop: the request is sent, and the response is worked off
Instruct(response) ==
    /\ run.pc = "loop"
    /\ Len(run.sent) < MaxRequests
    /\ IF ~response.ok
       THEN run' = [run EXCEPT !.pc = "failed", !.sent = Append(@, Len(run.history))]
       ELSE LET after == EachMessage(run.history, response.val.items)
            IN run' = [pc |-> after.pc, history |-> after.history,
                       sent |-> Append(run.sent, Len(run.history)),
                       responses |-> Append(run.responses, response.val.items)]
    /\ UNCHANGED <<accVars, tokenVars, regVars, runRest>>

\* process_prompt is over (Ok or Err); the next prompt begins a new run
RunOver ==
    /\ run.pc \in { "returned", "failed" }
    /\ run' = IdleRun
    /\ UNCHANGED <<accVars, tokenVars, regVars, runRest>>

\* the assistant messages a response may hold
Call(id) == GaiseToolCall(id, <<"todo_add">>, Some(TaskArguments))
AssistantMessages ==
    { GaiseMessage(<<"assistant">>, Some(One(Text(<<"r">>))), None),
      GaiseMessage(<<"assistant">>, None, Some(<< Call(<<"c1">>) >>)),
      GaiseMessage(<<"assistant">>, Some(One(Text(<<"r">>))),
                   Some(<< Call(<<"c1">>), Call(<<"c2">>) >>)),
      GaiseMessage(<<"assistant">>, Some(One(Text(<<"r">>))), Some(<<>>)),
      GaiseMessage(<<"assistant">>, None,
                   Some(<< GaiseToolCall(<<"c3">>, <<"todo_add">>, Some(<<"{">>)) >>)) }
Responses ==
    { Ok(One(m)) : m \in AssistantMessages }
    \cup { Ok(Many(ms)) : ms \in UNION { [1..k -> AssistantMessages] : k \in {0, 2} } }
    \cup { Err(<<"instruct">>) }

RunSteps ==
    \/ ProcessPrompt
    \/ \E response \in Responses : Instruct(response)
    \/ RunOver

\* ========================================================= specifications
vars == <<acc, pushed, accPc, msg, clock, tokenState, mutexHolder, tcall,
          config, clients, builtLog, failedLog, addedLog, rcall,
          coll, astream, http, tool, chat, xlat, wire, edit, run>>

\* A new accumulator; a new adapter with no token and idle callers; a new
\* service with an empty adapter cache.
InitWith(configs) ==
    /\ acc = NewAccumulator
    /\ pushed = <<>>
    /\ accPc = "open"
    /\ msg = None
    /\ clock = 0
    /\ tokenState = NewTokenState
    /\ mutexHolder = None
    /\ tcall = [c \in Callers |-> IdleCall]
    /\ config \in configs
    /\ clients = EmptyMap
    /\ builtLog = {}
    /\ failedLog = {}
    /\ addedLog = EmptyMap
    /\ rcall = [c \in Callers |-> IdleReg]
    /\ coll = IdleCollect
    /\ astream = IdleStream
    /\ http = IdleHttp
    /\ tool = IdleTool
    /\ chat = NewChat
    /\ xlat = IdleTranslate
    /\ wire = IdleWire
    /\ edit = IdleEdit
    /\ run = IdleRun

\* The registry under concurrent callers
Spec == InitWith(RaceConfigs) /\ [][Next]_vars

\* The registry serving one caller
SpecRoute == InitWith(Configs) /\ [][RouteNext]_vars

\* The accumulator alone
SpecAcc == InitWith({{}}) /\ [][AccNext]_vars

\* The token state of one adapter and its concurrent callers
SpecToken == InitWith({{}}) /\ [][TokenNext]_vars

\* collect() on finite streams
SpecCollect == InitWith({{}}) /\ [][CollectSteps]_vars

\* get_client alone, under every configuration
SpecResolve == InitWith(ResolveConfigs) /\ [][ResolveNext]_vars

\* The chat history of ikode-cli and the history sent with a request
SpecChat == InitWith({{}}) /\ [][ChatSteps]_vars

\* The file tools of ikode-cli
SpecTools == InitWith({{}}) /\ [][ToolSteps]_vars

\* The HTTP operations of the adapters
SpecHttp == InitWith({{}}) /\ [][HttpSteps]_vars

\* The stream of instruct_stream, from the transport to the caller
SpecStream == InitWith({{}}) /\ [][StreamSteps]_vars

\* The request translators of the five adapters
SpecTranslate == InitWith({{}}) /\ [][TranslateSteps]_vars

\* The frame decoding of the Ollama, OpenAI and Anthropic streams
SpecWire == InitWith({{}}) /\ [][WireSteps]_vars

\* The edit_file tool of ikode-cli
SpecEdit == InitWith({{}}) /\ [][EditSteps]_vars

\* The request loop of process_prompt
SpecRun == InitWith({{}}) /\ [][RunSteps]_vars

\* ================================================================ claims
\* What the pushes so far say, computed from the history alone.
RECURSIVE ConcatTexts(_)
ConcatTexts(s) ==
    IF s = <<>> THEN EmptyStr
    ELSE (IF Head(s).chunk.kind = "text" THEN Head(s).chunk.text ELSE EmptyStr)
         \o ConcatTexts(Tail(s))

ToolCallPositions == { i \in 1..Len(pushed) : pushed[i].chunk.kind = "tool_call" }
UsagePositions == { i \in 1..Len(pushed) : pushed[i].chunk.kind = "usage" }
PushedIndices == { pushed[i].chunk.index : i \in ToolCallPositions }

\* The fragments of field f carried by the tool call chunks of index i, joined in push order.
RECURSIVE ConcatField(_, _, _)
ConcatField(s, i, f) ==
    IF s = <<>> THEN EmptyStr
    ELSE (IF Head(s).chunk.kind = "tool_call" /\ Head(s).chunk.index = i /\ IsSome(Head(s).chunk[f])
          THEN Unwrap(Head(s).chunk[f]) ELSE EmptyStr)
         \o ConcatField(Tail(s), i, f)

HasField(i, f) ==
    \E p \in ToolCallPositions : pushed[p].chunk.index = i /\ IsSome(pushed[p].chunk[f])

ExpectedCall(i) ==
    [id |-> ConcatField(pushed, i, "id"),
     type |-> <<"function">>,
     name |-> ConcatField(pushed, i, "name"),
     arguments |-> IF HasField(i, "arguments")
                   THEN Some(ConcatField(pushed, i, "arguments")) ELSE None]

MsgText(m) == IF IsSome(m.content) THEN Unwrap(m.content).text ELSE EmptyStr
MsgCalls(m) == IF IsSome(m.tool_calls) THEN Unwrap(m.tool_calls) ELSE <<>>

\* C7: finish() returns a message with role "assistant" whose text is the
\* concatenation, in push order, of the strings of all pushed Text chunks;
\* ToolCall and Usage pushes in between leave the text alone.
C7_TextIsConcatenation ==
    /\ acc.text = ConcatTexts(pushed)
    /\ accPc = "finished" =>
        /\ Unwrap(msg).role = <<"assistant">>
        /\ MsgText(Unwrap(msg)) = ConcatTexts(pushed)

C7_Witness ==
    /\ accPc = "finished"
    /\ \E i, j, k \in 1..Len(pushed) :
        /\ i < j /\ j < k
        /\ pushed[i].chunk.kind = "text" /\ pushed[i].chunk.text # EmptyStr
        /\ pushed[j].chunk.kind # "text"
        /\ pushed[k].chunk.kind = "text" /\ pushed[k].chunk.text # EmptyStr
        /\ pushed[i].chunk.text # pushed[k].chunk.text

\* C8: the message has exactly one tool call per distinct pushed index, of
\* type "function", whose id, name and arguments are the concatenation in
\* push order of the fragments present in the chunks of that index (arguments
\* absent when no chunk of the index carried any); no fragment of one index
\* appears in another index's tool call.
C8_ToolCallsPerIndex ==
    /\ DOMAIN acc.tool_calls = PushedIndices
    /\ \A i \in PushedIndices : acc.tool_calls[i] = ExpectedCall(i)
    /\ accPc = "finished" =>
        LET calls == MsgCalls(Unwrap(msg))
        IN /\ Len(calls) = Cardinality(PushedIndices)
           /\ \A i \in PushedIndices : \E j \in 1..Len(calls) : calls[j] = ExpectedCall(i)
           /\ \A j \in 1..Len(calls) : \E i \in PushedIndices : calls[j] = ExpectedCall(i)

C8_Witness ==
    /\ accPc = "finished"
    /\ Len(MsgCalls(Unwrap(msg))) = 2
    /\ \E p, q \in ToolCallPositions :
        /\ p < q
        /\ pushed[p].chunk.index = pushed[q].chunk.index
        /\ IsSome(pushed[p].chunk.arguments) /\ IsSome(pushed[q].chunk.arguments)

\* The sum of side[k] over the pushed Usage chunks whose side holds the key k.
RECURSIVE SumKey(_, _, _)
SumKey(s, side, k) ==
    IF s = <<>> THEN 0
    ELSE (IF Head(s).chunk.kind = "usage" /\ IsSome(Head(s).chunk[side])
             /\ k \in DOMAIN Unwrap(Head(s).chunk[side])
          THEN Unwrap(Head(s).chunk[side])[k] ELSE 0)
         + SumKey(Tail(s), side, k)

SideKeys(side) ==
    UNION { DOMAIN Unwrap(pushed[p].chunk[side]) :
            p \in { q \in UsagePositions : IsSome(pushed[q].chunk[side]) } }

SideAsPushed(side, held) ==
    IF \E p \in UsagePositions : IsSome(pushed[p].chunk[side])
    THEN /\ IsSome(held)
         /\ DOMAIN Unwrap(held) = SideKeys(side)
         /\ \A k \in SideKeys(side) : Unwrap(held)[k] = SumKey(pushed, side, k)
    ELSE held = None

\* C9: after any pushes, usage.input[k] is the sum of input[k] over the pushed
\* Usage chunks that hold k, likewise usage.output; the keys of all chunks are
\* kept; usage is absent exactly when no Usage chunk was pushed.
C9_UsageIsPerKeySum ==
    IF UsagePositions = {} THEN acc.usage = None
    ELSE /\ IsSome(acc.usage)
         /\ SideAsPushed("input", Unwrap(acc.usage).input)
         /\ SideAsPushed("output", Unwrap(acc.usage).output)

C9_Witness ==
    /\ \E p, q \in UsagePositions :
        /\ p < q
        /\ IsSome(pushed[p].chunk.input) /\ IsSome(pushed[q].chunk.input)
        /\ DOMAIN Unwrap(pushed[p].chunk.input) # DOMAIN Unwrap(pushed[q].chunk.input)
    /\ IsSome(acc.usage)
    /\ Unwrap(Unwrap(acc.usage).input) = [prompt |-> 11, cached |-> 2]

\* The pushed index with exactly j - 1 smaller pushed indices.
IndexOfRank(j) ==
    CHOOSE i \in PushedIndices : Cardinality({ k \in PushedIndices : k < i }) = j - 1

\* C10: the message of finish() has content (one Text) iff the accumulated
\* text is non-empty, tool_calls iff a ToolCall chunk was pushed, and
\* tool_calls lists the tool calls in ascending index order whatever the
\* order the indices were pushed in.
C10_FinishPresenceAndOrder ==
    accPc = "finished" =>
        LET m == Unwrap(msg)
        IN /\ IsSome(m.content) <=> ConcatTexts(pushed) # EmptyStr
           /\ IsSome(m.content) => Unwrap(m.content).kind = "text"
           /\ IsSome(m.tool_calls) <=> ToolCallPositions # {}
           /\ Len(MsgCalls(m)) = Cardinality(PushedIndices)
           /\ \A j \in 1..Len(MsgCalls(m)) : MsgCalls(m)[j] = ExpectedCall(IndexOfRank(j))

C10_Witness ==
    /\ accPc = "finished"
    /\ \E p, q \in ToolCallPositions : p < q /\ pushed[p].chunk.index > pushed[q].chunk.index
    /\ Unwrap(msg).content = None
    /\ Len(MsgCalls(Unwrap(msg))) = 2

\* ------------------------------------------------------------ token claims
FetchesInProgress == Cardinality({ c \in Callers : tcall[c].pc = "fetching" })

\* C2 as stated: at most one token fetch is in progress at any time, and a
\* caller that waited for the mutex while another caller refreshed returns
\* the token that refresh stored without a fetch of its own.
C2_WaiterNeverFetches ==
    /\ FetchesInProgress <= 1
    /\ \A c \in Callers :
        (tcall[c].pc = "done" /\ IsSome(tcall[c].waitedFor)) =>
            /\ tcall[c].fetches = 0
            /\ tcall[c].ret = Some(Ok(Unwrap(tcall[c].waitedFor).access_token))

\* The token a waiter waited for is still usable for that waiter: it is not
\* empty and the waiter's own entry time plus the skew is before its expiry.
UsableFor(c, st) ==
    /\ st.access_token # EmptyStr
    /\ tcall[c].now + RefreshSkew < Unwrap(st.expires_at)

\* C2 amended: at most one token fetch is in progress at any time; a caller
\* that waited for the mutex while another caller refreshed returns the
\* stored token without a fetch of its own exactly when that token is
\* non-empty and the caller's entry time plus 5 minutes is before the stored
\* expiry, and otherwise makes one fetch of its own.
C2_OneFetchAtATime ==
    /\ FetchesInProgress <= 1
    /\ \A c \in Callers :
        (tcall[c].pc = "done" /\ IsSome(tcall[c].waitedFor)) =>
            IF UsableFor(c, Unwrap(tcall[c].waitedFor))
            THEN /\ tcall[c].fetches = 0
                 /\ tcall[c].ret = Some(Ok(Unwrap(tcall[c].waitedFor).access_token))
            ELSE tcall[c].fetches = 1

C2_Witness ==
    \E c \in Callers :
        /\ tcall[c].pc = "done"
        /\ IsSome(tcall[c].waitedFor)
        /\ tcall[c].fetches = 0
        /\ tcall[c].ret = Some(Ok(<<"t", "3">>))

\* C5: get_token() makes exactly one fetch iff the cached token is empty or
\* now plus 5 minutes is at or past the recorded expiry, and a fetch that
\* succeeds stores the new token, its type and expires_at = now + expires_in;
\* otherwise it makes no fetch, returns the cached token and leaves the
\* cached state as it was.
C5_FetchIffStale ==
    [][\A c \in Callers :
        LET now == tcall[c].now
            stale == \/ tokenState.access_token = EmptyStr
                     \/ /\ IsSome(tokenState.expires_at)
                        /\ now + RefreshSkew >= Unwrap(tokenState.expires_at)
        IN /\ (tcall[c].pc = "waiting" /\ tcall'[c].pc # "waiting") =>
                IF stale
                THEN /\ tcall'[c].pc = "fetching"
                     /\ tcall'[c].fetches = 1
                     /\ tokenState' = tokenState
                ELSE /\ tcall'[c].pc = "done"
                     /\ tcall'[c].fetches = 0
                     /\ tcall'[c].ret = Some(Ok(tokenState.access_token))
                     /\ tokenState' = tokenState
           /\ (tcall[c].pc = "fetching" /\ tcall'[c].pc = "done") =>
                /\ tcall'[c].fetches = 1
                /\ Unwrap(tcall'[c].ret).ok =>
                    LET r == Unwrap(tcall'[c].resp)
                    IN /\ tokenState' = [access_token |-> r.access_token,
                                         token_type |-> r.token_type,
                                         expires_at |-> Some(now + r.expires_in)]
                       /\ tcall'[c].ret = Some(Ok(r.access_token))
    ]_vars

C5_Witness ==
    \E c \in Callers :
        /\ tcall[c].pc = "done"
        /\ tcall[c].fetches = 0
        /\ tcall[c].ret = Some(Ok(tokenState.access_token))
        /\ tokenState.access_token # EmptyStr
        /\ tokenState.expires_at = Some(tcall[c].now + 10)

\* --------------------------------------------------------- registry claims
BuiltFor(p) == { i \in builtLog : i.provider = p }

\* C1: whatever the interleaving of concurrent get_client(p) calls for a
\* provider p that is not cached yet, one adapter instance is constructed for
\* p, every caller receives that instance, and the cache entry of p is never
\* replaced by a second constructed instance.
C1_OneInstancePerProvider ==
    /\ \A p \in RaceProviders : Cardinality(BuiltFor(p)) <= 1
    /\ \A c, d \in Callers :
        (/\ rcall[c].pc = "done" /\ rcall[d].pc = "done"
         /\ rcall[c].op = "get_client" /\ rcall[d].op = "get_client"
         /\ rcall[c].provider = rcall[d].provider
         /\ IsSome(rcall[c].inst) /\ IsSome(rcall[d].inst)
         /\ Unwrap(rcall[c].inst).kind = "built" /\ Unwrap(rcall[d].inst).kind = "built")
        => rcall[c].inst = rcall[d].inst

\* Where "::" occurs in a model string, stated on the string alone.
SepAt(m, i) == i >= 1 /\ i + 1 <= Len(m) /\ m[i] = Colon /\ m[i + 1] = Colon
HasSep(m) == \E i \in 1..Len(m) : SepAt(m, i)
FirstSepAt(m) == CHOOSE i \in 1..Len(m) : SepAt(m, i) /\ \A j \in 1..(i - 1) : ~SepAt(m, j)

\* C3: a model string that contains "::" is split at its first "::" into
\* (provider, model_id); the call goes to the adapter registered for
\* provider, with a request whose model is exactly model_id (which may hold
\* "::" itself) and whose other fields are the caller's.
C3_RoutesOnFirstSeparator ==
    \A c \in Callers :
        LET call == rcall[c]
        IN (IsSome(call.req) /\ HasSep(Unwrap(call.req).model)) =>
            LET req == Unwrap(call.req)
                i == FirstSepAt(req.model)
                provider == SubSeq(req.model, 1, i - 1)
                model_id == SubSeq(req.model, i + 2, Len(req.model))
            IN /\ call.result # Some(Err(<<"BadModelFormat">>))
               /\ call.provider = provider
               /\ call.actual_model = model_id
               /\ call.pc \in {"awaiting", "streaming"} => IsSome(call.sent)
               /\ IsSome(call.sent) =>
                    /\ Unwrap(call.sent).op = call.op
                    /\ Unwrap(call.sent).inst.provider = provider
                    /\ Unwrap(call.sent).inst = clients[provider]
                    /\ Unwrap(call.sent).req =
                            [model |-> model_id, correlation_id |-> req.correlation_id,
                             input |-> req.input]

C3_Witness ==
    \E c \in Callers :
        /\ rcall[c].pc = "awaiting"
        /\ Unwrap(rcall[c].req).model = <<"ollama", Colon, Colon, "m", Colon, Colon, "x">>
        /\ Unwrap(rcall[c].sent).req.model = <<"m", Colon, Colon, "x">>
        /\ Unwrap(rcall[c].sent).inst.provider = <<"ollama">>

\* C4: for a model string without "::" the call returns the bad-model-format
\* error, having looked up or constructed no adapter, called no logger and
\* delegated nothing.
C4_NoSeparatorIsBadModelFormat ==
    \A c \in Callers :
        LET call == rcall[c]
        IN (IsSome(call.req) /\ ~HasSep(Unwrap(call.req).model)) =>
            /\ call.pc = "done"
            /\ call.result = Some(Err(<<"BadModelFormat">>))
            /\ call.lookups = 0
            /\ call.inst = None
            /\ call.log = <<>>
            /\ call.sent = <<>>

C4_Witness ==
    \E c \in Callers :
        /\ rcall[c].pc = "done"
        /\ "logger" \in config
        /\ rcall[c].op = "instruct_stream"
        /\ Unwrap(rcall[c].req).model = <<"ollama", Colon, "ollama">>
        /\ rcall[c].result = Some(Err(<<"BadModelFormat">>))

IsEmptyText(item) ==
    IF item.ok
    THEN item.val.chunk.kind = "text" /\ Len(item.val.chunk.text) = 0
    ELSE FALSE
NotEmptyText(item) == ~IsEmptyText(item)

\* C6: what instruct_stream delivers is the adapter's sequence with every
\* Text("") chunk removed: every other item is delivered once, unchanged and
\* in its original order.
C6_StreamDropsOnlyEmptyText ==
    \A c \in Callers : rcall[c].delivered = SelectSeq(rcall[c].upstream, NotEmptyText)

C6_Witness ==
    \E c \in Callers :
        /\ rcall[c].pc = "done"
        /\ Len(rcall[c].upstream) = 3
        /\ IsEmptyText(rcall[c].upstream[2])
        /\ rcall[c].delivered = <<rcall[c].upstream[1], rcall[c].upstream[3]>>
        /\ rcall[c].upstream[1] # rcall[c].upstream[3]

\* ----------------------------------------------------------- collect claim
\* Where the first Err item of a stream is, 0 if it has none.
FirstErrAt(s) ==
    IF \E i \in 1..Len(s) : ~s[i].ok
    THEN CHOOSE i \in 1..Len(s) : ~s[i].ok /\ \A j \in 1..(i - 1) : s[j].ok
    ELSE 0

\* Every item of s pushed in order into a.
RECURSIVE PushAll(_, _)
PushAll(a, s) == IF s = <<>> THEN a ELSE PushAll(Push(a, Head(s).val), Tail(s))

\* C11: collect(stream) returns the first Err item of the stream as its
\* error, having pulled no item after it; on a stream with no Err item it
\* pulls every item and returns the message finish() gives after every item
\* was pushed in order into a new accumulator.
C11_CollectShortCircuits ==
    coll.pc = "done" =>
        LET e == FirstErrAt(coll.stream)
        IN IF e # 0
           THEN /\ coll.result = Some(Err(coll.stream[e].val))
                /\ coll.pulled = e
           ELSE /\ coll.result = Some(Ok(Finish(PushAll(NewAccumulator, coll.stream))))
                /\ coll.pulled = Len(coll.stream)

C11_Witness ==
    /\ coll.pc = "done"
    /\ Len(coll.stream) = 3
    /\ coll.stream[1].ok /\ ~coll.stream[2].ok /\ ~coll.stream[3].ok
    /\ coll.stream[2] # coll.stream[3]
    /\ coll.result = Some(coll.stream[2])
    /\ coll.pulled = 2

\* ------------------------------------------------------------ logger claim
\* The log_stream_chunk invocations the Ok items of s call for, in order.
RECURSIVE ChunkEntries(_, _, _)
ChunkEntries(s, op, req) ==
    IF s = <<>> THEN <<>>
    ELSE (IF Head(s).ok THEN <<LogEntry("stream_chunk", op, req, Head(s).val)>> ELSE <<>>)
         \o ChunkEntries(Tail(s), op, req)

\* C12: with a logger configured, a registry call that reaches the adapter
\* invokes log_request once before the adapter is called; instruct and
\* embeddings invoke log_response once after the adapter returned Ok (and not
\* after an error); instruct_stream invokes log_stream_chunk once per chunk
\* the adapter's stream produced, in stream order; every invocation carries
\* the caller's correlation id, the operation name and the model string as
\* the caller gave it. Without a logger nothing is logged.
C12_LoggerInvocations ==
    \A c \in Callers :
        LET call == rcall[c]
        IN IF "logger" \notin config \/ call.sent = None
           THEN call.log = <<>>
           ELSE LET req == Unwrap(call.req)
                    request == LogEntry("request", call.op, req, req)
                    response == LogEntry("response", call.op, req, <<"response">>)
                IN /\ request.model # Unwrap(call.sent).req.model
                   /\ call.log =
                        IF call.pc = "awaiting" THEN <<request>>
                        ELSE IF call.op = "instruct_stream"
                        THEN <<request>> \o ChunkEntries(call.upstream, call.op, req)
                        ELSE IF Unwrap(call.result).ok THEN <<request, response>>
                        ELSE <<request>>

C12_Witness ==
    \E c \in Callers :
        /\ "logger" \in config
        /\ rcall[c].pc = "done"
        /\ rcall[c].op = "instruct_stream"
        /\ Unwrap(rcall[c].req).correlation_id = Some(<<"r1">>)
        /\ Len(rcall[c].upstream) = 3
        /\ ~rcall[c].upstream[2].ok
        /\ rcall[c].upstream[1] # rcall[c].upstream[3]
        /\ Len(rcall[c].log) = 3
        /\ rcall[c].log[3].json = rcall[c].upstream[3].val
        /\ rcall[c].log[3].model = <<"ollama", Colon, Colon, "m", Colon, Colon, "x">>

\* ------------------------------------------------- adapter errors: claim
\* C13: a registry instruct, instruct_stream or embeddings call invokes the
\* resolved adapter's operation at most once; when the adapter returns an
\* error the call returns that same error, with no further adapter call (no
\* retry, no other adapter) and with the adapter cache as it was.
C13_AdapterErrorReturnedAsIs ==
    [][\A c \in Callers :
        /\ Len(rcall'[c].sent) <= 1
        /\ (rcall[c].pc = "awaiting" /\ rcall'[c].pc # "awaiting"
            /\ IsSome(rcall'[c].answer) /\ ~Unwrap(rcall'[c].answer).ok) =>
                /\ rcall'[c].pc = "done"
                /\ rcall'[c].result = rcall'[c].answer
                /\ rcall'[c].sent = rcall[c].sent
                /\ clients' = clients
                /\ builtLog' = builtLog
        /\ (rcall[c].pc = "done" /\ IsSome(rcall[c].answer) /\ ~Unwrap(rcall[c].answer).ok) =>
                \/ rcall'[c] = rcall[c]
                \/ rcall'[c] = IdleReg
    ]_vars

C13_Witness ==
    \E c \in Callers :
        /\ rcall[c].pc = "done"
        /\ rcall[c].op = "embeddings"
        /\ rcall[c].answer = Some(Err(<<"Transport">>))
        /\ rcall[c].result = Some(Err(<<"Transport">>))
        /\ Len(rcall[c].sent) = 1
        /\ DOMAIN clients = {<<"openai">>}

\* --------------------------------------------------- mid-stream failure
\* The failures among the transport events, and the Err items among the delivered.
TransportFailures(s) == SelectSeq(s, LAMBDA ev : ~ev.ok)
ErrItems(s) == SelectSeq(s, LAMBDA item : ~item.ok)

\* C14: a transport failure in the middle of a stream reaches the caller as
\* an Err item at the position where it occurred: for each adapter the Err
\* items delivered are the transport's failures, one for one and in order,
\* and what is delivered is the adapter's items with only Text("") removed.
C14_MidStreamFailureDelivered ==
    /\ astream.delivered = SelectSeq(astream.items, NotEmptyText)
    /\ Len(ErrItems(astream.delivered)) = Len(TransportFailures(astream.events))
    /\ \A i \in 1..Len(ErrItems(astream.delivered)) :
            ErrItems(astream.delivered)[i].val = TransportFailures(astream.events)[i].val

\* ------------------------------------------------ failing get_client: claim
\* The settings the adapter of a built-in provider cannot be made without.
RequiredConfig(provider) ==
    CASE provider = <<"vertexai">> -> {"vertexai_sa", "vertexai_api_url"}
      [] provider = <<"openai">> -> {"openai_api_key"}
      [] provider = <<"anthropic">> -> {"anthropic_api_key"}
      [] OTHER -> {}
CannotBuild(provider) ==
    provider \notin Providers \/ ~(RequiredConfig(provider) \subseteq config)

\* C15: get_client(p) for a provider that is unknown, or whose required
\* configuration is missing, returns an error and inserts nothing: p is never
\* in the cache, no adapter is constructed for p, and every get_client(p)
\* fails with the same error.
C15_FailedGetClientInsertsNothing ==
    /\ \A c \in Callers :
        (rcall[c].op = "get_client" /\ rcall[c].pc = "done" /\ CannotBuild(rcall[c].provider)) =>
            /\ ~Unwrap(rcall[c].result).ok
            /\ rcall[c].inst = None
            /\ \E f \in failedLog :
                    f.provider = rcall[c].provider /\ f.error = Unwrap(rcall[c].result).val
    /\ \A f \in failedLog :
            /\ CannotBuild(f.provider)
            /\ f.provider \notin DOMAIN clients
            /\ BuiltFor(f.provider) = {}
            /\ \A g \in failedLog : g.provider = f.provider => g.error = f.error
    /\ \A p \in DOMAIN clients : ~CannotBuild(p)

C15_Witness ==
    /\ config = {"vertexai_sa", "openai_api_key"}
    /\ \E f \in failedLog : f.provider = <<"vertexai">> /\ f.again
    /\ \E f \in failedLog : f.provider = <<"mock">> /\ f.again
    /\ \E f \in failedLog : f.provider = <<"anthropic">>
    /\ DOMAIN clients = {<<"openai">>}
    /\ rcall[RouteCaller].pc = "done" /\ rcall[RouteCaller].provider = <<"vertexai">>

\* ------------------------------------------------------ add_client: claim
\* add_client(p, ..) is being made by some caller.
AddInProgress(p) ==
    \E d \in Callers : rcall[d].pc = "adding" /\ rcall[d].provider = p

\* C16: a get_client(p), or an operation on "p::...", that starts after
\* add_client(p, inst) has returned uses inst and constructs no adapter, as
\* long as no other add_client(p, ..) is made; also when a constructing
\* get_client(p) was in flight while add_client ran.
C16_AddedClientIsUsed ==
    \A c \in Callers :
        LET call == rcall[c]
        IN (/\ call.op \in {"get_client", "instruct", "instruct_stream", "embeddings"}
            /\ IsSome(call.since)
            /\ LastAdded(call.provider) = call.since
            /\ ~AddInProgress(call.provider)) =>
                /\ call.pc \notin {"construct", "insert"}
                /\ IsSome(call.inst) => call.inst = call.since

\* ------------------------------------------------------ HTTP errors: claim
\* C17: for every adapter operation that makes an HTTP call, an answer whose
\* status is not a success makes the operation return the upstream-HTTP
\* error that carries the body text: the body is not decoded as a response
\* and no stream is returned.
C17_NonSuccessIsHttpError ==
    (http.pc = "done" /\ ~IsSuccess(http.status)) =>
        http.result = Some(HttpError(http.body))

\* ---------------------------------------------------- validate_path: claim
InWorkingDirectory(path) == StartsWith(path, WorkingDirectory)

\* C18: validate_path(path) returns Ok only for a path that, with its '..'
\* components and symlinks resolved against the working directory, lies in
\* the working directory, whether or not the target exists yet; and
\* read_file, edit_file and create_file touch no file outside it.
C18_ValidatedPathStaysInside ==
    (tool.pc # "idle" /\ Unwrap(tool.validated).ok) =>
        /\ LET at == Resolve(<<>>, Joined(Unwrap(tool.path)))
           IN IsSome(at) => InWorkingDirectory(Unwrap(at))
        /\ IsSome(tool.touched) => InWorkingDirectory(Unwrap(tool.touched))

\* -------------------------------------------- build_request_history: claim
IsNotice(m) == \E n \in 0..MaxHistoryLen + 1 : m = TruncationNotice(n)
IsRetained(m) == ~IsNotice(m)

\* s is t with some elements left out, the others in their order.
RECURSIVE IsSubsequence(_, _)
IsSubsequence(s, t) ==
    IF s = <<>> THEN TRUE
    ELSE IF t = <<>> THEN FALSE
    ELSE IF Head(s) = Head(t) THEN IsSubsequence(Tail(s), Tail(t))
    ELSE IsSubsequence(s, Tail(t))

\* C19: with max_history > 0, build_request_history returns the history
\* unchanged when it has at most max_history messages; otherwise it returns
\* at most max_history + 2 messages that start with the first
\* 1 + prefix_keep history messages, end with the most recent history
\* message, hold at most one truncation notice and keep the retained
\* messages in their original order.
C19_HistoryTruncation ==
    (IsSome(chat.request) /\ chat.max_history > 0) =>
        LET history == chat.history
            result == Unwrap(chat.request)
            total == Len(history)
            kept == Min(1 + chat.prefix_keep, total)
        IN IF total <= chat.max_history THEN result = history
           ELSE /\ Len(result) <= chat.max_history + 2
                /\ Len(result) >= kept
                /\ SubSeq(result, 1, kept) = SubSeq(history, 1, kept)
                /\ result[Len(result)] = history[total]
                /\ Len(SelectSeq(result, IsNotice)) <= 1
                /\ IsSubsequence(SelectSeq(result, IsRetained), history)

\* ------------------------------------------------- failing fetch: claim
\* C20: when the token fetch fails, get_token returns the error after one
\* fetch attempt, the cached token, token type and expires_at are as they
\* were, and the mutex is released; a get_token() call that starts after the
\* failure, and finds the token state as the failure left it, fetches again.
C20_FailedFetchLeavesState ==
    [][\A c \in Callers :
        /\ tcall'[c].fetches <= 1
        /\ (tcall[c].pc = "fetching" /\ tcall'[c].pc = "done"
            /\ ~Unwrap(tcall'[c].ret).ok) =>
                /\ tcall'[c].fetches = 1
                /\ tokenState' = tokenState
                /\ mutexHolder = Some(c)
                /\ mutexHolder' = None
        /\ (tcall[c].pc = "waiting" /\ tcall'[c].pc # "waiting"
            /\ tcall[c].afterFail = Some(tokenState)) =>
                /\ tcall'[c].pc = "fetching"
                /\ tcall'[c].fetches = 1
    ]_vars

C20_Witness ==
    \E c, d \in Callers :
        /\ tcall[d].pc = "done" /\ tcall[d].ret = Some(Err(<<"AuthError">>))
        /\ tcall[d].left = Some(tokenState)
        /\ tcall[c].pc = "fetching"
        /\ tcall[c].again
        /\ tokenState.access_token = <<"t", "2">>

\* --------------------------------------------------- external id: claim
\* The external ids the pushed items carried that are not the empty string,
\* in push order.
NonEmptyExternalIds ==
    LET carried == [i \in 1..Len(pushed) |-> pushed[i].external_id]
    IN SelectSeq(carried, LAMBDA ext : IsSome(ext) /\ Unwrap(ext) # EmptyStr)

\* C28: after any sequence of pushes the accumulator's external_id is the
\* external_id of the first pushed item that carried a non-empty one, and
\* is absent if no item carried one.
C28_ExternalIdFirstNonEmpty ==
    acc.external_id =
        IF NonEmptyExternalIds = <<>> THEN None ELSE Head(NonEmptyExternalIds)

\* ------------------------------------------------- token freshness: claim
\* The access tokens the endpoint hands out with an expires_in above the skew.
LongLivedTokens ==
    { r.access_token : r \in { x \in TokenResponses : x.expires_in > RefreshSkew } }

\* C29: a token get_token() returns, when the endpoint reported an
\* expires_in above the skew for it, is at the moment of the return more
\* than the skew away from the expires_at recorded for it, for the caller
\* that fetched it and for a caller that waited on the mutex.
C29_ReturnedTokenOutsideSkew ==
    [][\A c \in Callers :
        (/\ tcall[c].pc # "done"
         /\ tcall'[c].pc = "done"
         /\ Unwrap(tcall'[c].ret).ok
         /\ Unwrap(tcall'[c].ret).val \in LongLivedTokens) =>
            clock' + RefreshSkew < Unwrap(tokenState'.expires_at)
    ]_vars

\* ------------------------------------------- request translators: claims
\* The adapters that have a dedicated system field, and those said to keep
\* system messages inline.
SystemFieldProviders == { <<"vertexai">>, <<"bedrock">> }
InlineSystemProviders == { <<"openai">>, <<"anthropic">>, <<"ollama">> }

SystemPositions(input) == { i \in 1..Len(input) : input[i].role = <<"system">> }
FirstSystem(input) ==
    CHOOSE i \in SystemPositions(input) : \A j \in SystemPositions(input) : i <= j

\* The system field and the turn list of a translated request.
SystemField(provider, request) ==
    IF provider = <<"vertexai">> THEN request.system_instruction ELSE request.system
TurnList(provider, request) ==
    IF provider = <<"vertexai">> THEN request.contents ELSE request.messages

\* C21: the Vertex AI and Bedrock translators put the first system-role
\* message of the input into the system field (the field is what that
\* message alone gives) and remove only that message from the turn list; a
\* later system-role message neither replaces nor extends the field.
C21_FirstSystemMessageExtracted ==
    (xlat.pc = "done" /\ xlat.what = "messages"
        /\ Unwrap(xlat.provider) \in SystemFieldProviders) =>
        LET provider == Unwrap(xlat.provider)
            input == Unwrap(xlat.input)
            request == Unwrap(xlat.request)
        IN IF SystemPositions(input) = {}
           THEN /\ SystemField(provider, request) = None
                /\ Len(TurnList(provider, request)) = Len(input)
           ELSE /\ SystemField(provider, request) =
                        SystemField(provider,
                                    RequestFor(provider, << input[FirstSystem(input)] >>))
                /\ Len(TurnList(provider, request)) = Len(input) - 1

Roles(messages) == [i \in 1..Len(messages) |-> messages[i].role]

RECURSIVE Leaves(_)
Leaves(items) ==
    IF items = <<>> THEN <<>>
    ELSE LET item == Head(items)
         IN (IF item.type = "parts" THEN Leaves(item.parts)
             ELSE << [kind |-> item.type,
                      val |-> IF item.type = "text" THEN item.text ELSE item.data] >>)
            \o Leaves(Tail(items))

\* The leaf kinds a provider's wire format takes (as its translator shows).
AcceptedKinds(provider) ==
    CASE provider = <<"vertexai">> -> {"text", "image", "audio"}
      [] provider = <<"openai">> -> {"text", "image", "audio"}
      [] OTHER -> {"text", "image"}

\* The leaves one outbound message carries, read back from the wire form.
WireLeaves(provider, m) ==
    CASE provider = <<"vertexai">> ->
            LET parts == SelectSeq(m.parts, LAMBDA x : IsSome(x.text) \/ IsSome(x.inline_data))
            IN [i \in 1..Len(parts) |->
                    IF IsSome(parts[i].text)
                    THEN [kind |-> "text", val |-> Unwrap(parts[i].text)]
                    ELSE [kind |-> IF Unwrap(parts[i].inline_data).mime_type = <<"image/jpeg">>
                                   THEN "image" ELSE "audio",
                          val |-> Tail(Unwrap(parts[i].inline_data).data)]]
      [] provider = <<"bedrock">> ->
            [i \in 1..Len(m.content) |->
                IF m.content[i].block = "Text"
                THEN [kind |-> "text", val |-> m.content[i].text]
                ELSE [kind |-> "image", val |-> m.content[i].bytes]]
      [] provider = <<"openai">> ->
            LET content == Unwrap(m.content)
            IN IF content.kind = "Text" THEN << [kind |-> "text", val |-> content.text] >>
               ELSE [i \in 1..Len(content.parts) |->
                        CASE content.parts[i].type = "text" ->
                                [kind |-> "text", val |-> content.parts[i].text]
                          [] content.parts[i].type = "image_url" ->
                                [kind |-> "image",
                                 val |-> SubSeq(content.parts[i].url, 5,
                                                Len(content.parts[i].url))]
                          [] OTHER ->
                                [kind |-> "audio", val |-> Tail(content.parts[i].data)]]
      [] provider = <<"anthropic">> ->
            IF m.content.kind = "Text" THEN << [kind |-> "text", val |-> m.content.text] >>
            ELSE [i \in 1..Len(m.content.blocks) |->
                    IF m.content.blocks[i].type = "text"
                    THEN [kind |-> "text", val |-> m.content.blocks[i].text]
                    ELSE [kind |-> "image", val |-> Tail(m.content.blocks[i].source.data)]]

RECURSIVE ConcatVals(_)
ConcatVals(leaves) ==
    IF leaves = <<>> THEN EmptyStr ELSE Head(leaves).val \o ConcatVals(Tail(leaves))

\* An outbound message carries exactly these leaves (Ollama's wire form has
\* one text string and a list of images).
CarriesLeaves(provider, m, leaves) ==
    IF provider = <<"ollama">>
    THEN LET texts == SelectSeq(leaves, LAMBDA l : l.kind = "text")
             images == SelectSeq(leaves, LAMBDA l : l.kind = "image")
         IN /\ m.content = ConcatVals(texts)
            /\ UnwrapOr(m.images, <<>>) = [i \in 1..Len(images) |-> Base64(images[i].val)]
    ELSE WireLeaves(provider, m) = leaves

\* The input messages that have a turn of their own in the outbound list.
TurnMessages(provider, input) ==
    IF provider \in { <<"openai">>, <<"ollama">> } THEN input
    ELSE SelectSeq(input, LAMBDA m : m.role # <<"system">>)

\* C23: every adapter's translator maps a message's content to the flat
\* ordered sequence of all its leaves of the kinds the provider accepts,
\* Parts flattened at any depth: none dropped, duplicated or reordered.
C23_PartsFullyFlattened ==
    (xlat.pc = "done" /\ xlat.what = "messages") =>
        LET provider == Unwrap(xlat.provider)
            turns == TurnMessages(provider, Unwrap(xlat.input))
            messages == TurnList(provider, Unwrap(xlat.request))
        IN /\ Len(messages) = Len(turns)
           /\ \A i \in 1..Len(turns) :
                IsSome(turns[i].content) =>
                    CarriesLeaves(provider, messages[i],
                        SelectSeq(Leaves(Unwrap(turns[i].content).items),
                                  LAMBDA l : l.kind \in AcceptedKinds(provider)))

\* A parameter tree as the claim has it: "text" read as "string", the rest
\* of the tree as it is (an absent properties map or required list is empty).
RECURSIVE ExpectedSchema(_)
ExpectedSchema(p) ==
    [type |-> IF Unwrap(p.type) = <<"text">> THEN <<"string">> ELSE Unwrap(p.type),
     properties |-> IF IsSome(p.properties)
                    THEN LET props == Unwrap(p.properties)
                         IN [k \in DOMAIN props |-> ExpectedSchema(props[k])]
                    ELSE EmptyMap,
     items |-> IF IsSome(p.items) THEN Some(ExpectedSchema(Unwrap(p.items))) ELSE None,
     required |-> UnwrapOr(p.required, <<>>)]

\* The tree a provider schema holds, read back from the three wire forms.
RECURSIVE PropertyTree(_)
PropertyTree(prop) ==
    [type |-> prop.type, properties |-> EmptyMap,
     items |-> IF IsSome(prop.items) THEN Some(PropertyTree(Unwrap(prop.items))) ELSE None,
     required |-> <<>>]
ParametersTree(parameters) ==
    [type |-> parameters.type,
     properties |-> [k \in DOMAIN parameters.properties |->
                        PropertyTree(parameters.properties[k])],
     items |-> None,
     required |-> parameters.required]
RECURSIVE GoogleSchemaTree(_)
GoogleSchemaTree(s) ==
    [type |-> s.type,
     properties |-> IF IsSome(s.properties)
                    THEN LET props == Unwrap(s.properties)
                         IN [k \in DOMAIN props |-> GoogleSchemaTree(props[k])]
                    ELSE EmptyMap,
     items |-> IF IsSome(s.items) THEN Some(GoogleSchemaTree(Unwrap(s.items))) ELSE None,
     required |-> UnwrapOr(s.required, <<>>)]
RECURSIVE DocumentTree(_)
DocumentTree(d) ==
    [type |-> d["type"],
     properties |-> IF "properties" \in DOMAIN d
                    THEN [k \in DOMAIN d["properties"] |-> DocumentTree(d["properties"][k])]
                    ELSE EmptyMap,
     items |-> IF "items" \in DOMAIN d THEN Some(DocumentTree(d["items"])) ELSE None,
     required |-> IF "required" \in DOMAIN d THEN d["required"] ELSE <<>>]
SchemaTree(provider, declaration) ==
    CASE provider = <<"vertexai">> -> GoogleSchemaTree(declaration.parameters)
      [] provider = <<"bedrock">> -> DocumentTree(Unwrap(declaration.input_schema))
      [] provider = <<"anthropic">> -> ParametersTree(declaration.input_schema)
      [] OTHER -> ParametersTree(declaration.function.parameters)

\* C24: every adapter's tool-schema translator converts the ToolParameter
\* tree recursively: at every depth "text" becomes "string" and any other
\* type is kept, and nested items, properties and required lists are
\* carried over with the same structure and keys.
C24_ToolSchemaConverted ==
    (xlat.pc = "done" /\ xlat.what = "tool"
        /\ IsSome(Unwrap(xlat.input).parameters)) =>
        SchemaTree(Unwrap(xlat.provider), Unwrap(xlat.request)) =
            ExpectedSchema(Unwrap(Unwrap(xlat.input).parameters))

\* ---- C25: in the Ollama stream, the object with done: true yields exactly
\* one Usage chunk carrying its prompt and completion counts (0 for an absent
\* one), whatever else the object contains, and that chunk is the last item
\* produced; an object with done: false yields no Usage chunk.
ObjectOf(res) == Unwrap(res.val.json)
IsObject(res) == res.ok /\ res.val.prefix = "" /\ res.val.kind = "json"
ExpectedUsage(object) ==
    Ok(StreamResponse(
        UsageChunk(Some([prompt_tokens |-> UnwrapOr(object.prompt_eval_count, 0)]),
                   Some([completion_tokens |-> UnwrapOr(object.eval_count, 0)])),
        None))
IsUsageItem(item) == item.ok /\ item.val.chunk.kind = "usage"
C25_DoneObjectYieldsTrailingUsage ==
    wire.provider = <<"ollama">> =>
        \A i \in 1..Len(wire.chunks) :
            IsObject(wire.chunks[i]) =>
                IF ObjectOf(wire.chunks[i]).done
                THEN /\ wire.yields[i] = << ExpectedUsage(ObjectOf(wire.chunks[i])) >>
                     /\ wire.items # <<>>
                     /\ wire.items[Len(wire.items)] = ExpectedUsage(ObjectOf(wire.chunks[i]))
                ELSE \A k \in 1..Len(wire.yields[i]) : ~IsUsageItem(wire.yields[i][k])

\* ---- C26: in the OpenAI and Anthropic streams a frame without actionable
\* content (the data: [DONE] sentinel, a metadata-only event, a heartbeat or
\* another line that is no data line) produces no item, so never an Err
\* item, and the items produced are those of the other frames, in order.
MetadataOnly(provider, object) ==
    IF provider = <<"openai">>
    THEN \/ object.choices = <<>>
         \/ /\ ~IsSome(object.choices[1].delta.content)
            /\ ~IsSome(object.choices[1].delta.tool_calls)
    ELSE \/ object.type \notin { "content_block_delta", "content_block_start" }
         \/ /\ object.type = "content_block_start"
            /\ Unwrap(object.content_block).type # "tool_use"
NotActionable(provider, res) ==
    /\ res.ok
    /\ \/ res.val.prefix # "data: "
       \/ res.val.kind = "done"
       \/ res.val.kind = "json" /\ MetadataOnly(provider, ObjectOf(res))
RECURSIVE ItemsOfOthers(_, _, _)
ItemsOfOthers(provider, chunks, yields) ==
    IF chunks = <<>> THEN <<>>
    ELSE (IF NotActionable(provider, Head(chunks)) THEN <<>> ELSE Head(yields))
         \o ItemsOfOthers(provider, Tail(chunks), Tail(yields))
C26_NoItemForFrameWithoutContent ==
    wire.provider \in { <<"openai">>, <<"anthropic">> } =>
        /\ \A i \in 1..Len(wire.chunks) :
               NotActionable(wire.provider, wire.chunks[i]) => wire.yields[i] = <<>>
        /\ wire.items = ItemsOfOthers(wire.provider, wire.chunks, wire.yields)

\* ---- C27: edit_file changes the file only when old_text occurs exactly once
\* in it, and then the file is the old content with that one occurrence
\* replaced by new_text and nothing else changed; when old_text occurs zero
\* times or more than once the answer is an error message and the file is
\* left as it was.
Occurrences(s, p) == { i \in 1..(Len(s) + 1) : MatchesAt(s, p, i) }
IsErrorAnswer(answer) == answer \in { "Error reading file", "Error: old_text not found in file",
                                      "Error: old_text matches several locations",
                                      "Error writing file" }
C27_EditReplacesUniqueOccurrence ==
    (edit.pc = "done" /\ IsSome(Unwrap(edit.before))) =>
        LET content == Unwrap(Unwrap(edit.before))
            args == Unwrap(edit.args)
            at == Occurrences(content, args.old_text)
        IN /\ edit.file # Unwrap(edit.before) =>
                 /\ Cardinality(at) = 1
                 /\ \A i \in at :
                       Unwrap(edit.file) = Splice(content, i, Len(args.old_text), args.new_text)
           /\ Cardinality(at) # 1 =>
                 /\ IsErrorAnswer(Unwrap(edit.answer))
                 /\ edit.file = Unwrap(edit.before)

\* ---- C30: in one process_prompt run (a) every assistant message of every
\* response is appended to the history, (b) each tool call of an appended
\* message is followed by exactly one tool message carrying its id, in call
\* order, before the next request is sent, (c) a further request is sent only
\* after a tool message was appended since the previous request, and (d) the
\* run returns as soon as a response carries no tool calls.
RECURSIVE FlattenSeqs(_)
FlattenSeqs(ss) == IF ss = <<>> THEN <<>> ELSE Head(ss) \o FlattenSeqs(Tail(ss))
IsAssistant(m) == m.role = <<"assistant">>
IsToolMessage(m) == m.role = <<"tool">>
CallsOf(m) == IF IsSome(m.tool_calls) THEN Unwrap(m.tool_calls) ELSE <<>>
CarriesToolCalls(messages) == \E i \in 1..Len(messages) : CallsOf(messages[i]) # <<>>
AllAppended == SelectSeq(run.history, IsAssistant) = FlattenSeqs(run.responses)
CallsAnswered ==
    \A j \in 1..Len(run.history) :
        IsAssistant(run.history[j]) =>
            LET calls == CallsOf(run.history[j])
            IN /\ j + Len(calls) <= Len(run.history)
               /\ \A k \in 1..Len(calls) :
                     /\ IsToolMessage(run.history[j + k])
                     /\ run.history[j + k].tool_call_id = Some(calls[k].id)
               /\ j + Len(calls) < Len(run.history) =>
                     ~IsToolMessage(run.history[j + Len(calls) + 1])
RequestAfterToolMessage ==
    \A n \in 2..Len(run.sent) :
        \E j \in (run.sent[n - 1] + 1)..run.sent[n] : IsToolMessage(run.history[j])
ReturnsWithoutToolCalls ==
    (run.responses # <<>> /\ ~CarriesToolCalls(run.responses[Len(run.responses)])) =>
        run.pc = "returned"
C30_PromptRunAppendsAndReturns ==
    run.pc \in { "loop", "returned" } =>
        /\ AllAppended
        /\ CallsAnswered
        /\ RequestAfterToolMessage
        /\ ReturnsWithoutToolCalls

====
